---- MODULE Spec2Model ----
(***************************************************************************)
(* U.S. Tax Assistant bot: the conversation-history lifecycle.             *)
(*   teamsBot.js        (src/unnamed/part_002)  onMessage, token counting, *)
(*                                              trimConversationToTokenLimit*)
(*   storageService.js  (src/storageService.js) the dual-backend store     *)
(*   taxDisclaimerClassifier.js (src/package.json, lines 46-113)           *)
(*   index.js           (src/README.md, lines 156-316) process start-up    *)
(***************************************************************************)
EXTENDS Integers, Sequences, FiniteSets, TLC

(***************************************************************************)
(* Bounds of the model.                                                    *)
(***************************************************************************)
\* longest history handed to the trimmer in SpecTrim
MaxLen == 4
\* messages received by the bot in one behaviour of Spec
MaxTurns == 2
\* store operations issued by the driver in one behaviour of SpecStore
MaxOps == 3
\* turns that can be in flight at once
MaxInFlight == 2

(***************************************************************************)
(* Texts.  A string of the model names a text; what the program observes  *)
(* of the text is given by the tables below: its token count under the     *)
(* tiktoken encoder, and the length of its JSON literal in UTF-16 code     *)
(* units (String.length) and in UTF-8 bytes.  The two lengths differ for   *)
(* the one text with a character outside ASCII; for the others only their  *)
(* being equal matters.                                                    *)
(***************************************************************************)
RestartCommand == "/restart"

\* what the user types in Spec (after mention removal and trim): a short
\* text that contains the command, a text outside ASCII, a long text, and
\* the command in two casings
UserTexts ==
  {"see /restart", "caf<U+00E9>", "long question", RestartCommand, "/RESTART"}

\* context.activity.text as it arrives: what the user typed, or the same
\* after a mention of the bot and with white space around it
ActivityTexts == UserTexts \cup {"<at>Tax Assistant</at> /restart "}

\* TurnContext.removeRecipientMention(context.activity)
removeRecipientMention(text) ==
  CASE text = "<at>Tax Assistant</at> /restart " -> " /restart "
    [] OTHER -> text

\* removedMentionText.trim()
StringTrim(text) ==
  CASE text = " /restart " -> "/restart"
    [] OTHER -> text

\* faulty variant: the text is compared as typed
toLowerCase_AsTyped(text) == text

\* txt.toLowerCase()
toLowerCase(text) ==
  CASE text = "/RESTART" -> "/restart"
    [] OTHER -> text

\* botResponseText as extracted from the model's response
ResponseTexts == {"ok", "long answer"}

\* the answers the model gives in Spec
BotResponseTexts == {"ok"}

\* this.encoder.encode(text).length
encodeLength(text) ==
  CASE text = "hi" -> 1
    [] text = "ok" -> 1
    [] text = "caf<U+00E9>" -> 2
    [] text = RestartCommand -> 2
    [] text = "/RESTART" -> 3
    [] text = "see /restart" -> 3
    [] text = "long question" -> 450000
    [] text = "long answer" -> 450000
    [] text = "Today's date is Monday ..." -> 407
    [] OTHER -> 1

\* text.length of the JSON string literal holding the text (UTF-16 code units,
\* quotes included)
Utf16Length(text) ==
  CASE text = "hi" -> 4
    [] text = "ok" -> 4
    [] text = "caf<U+00E9>" -> 6
    [] text = RestartCommand -> 10
    [] text = "/RESTART" -> 10
    [] text = "see /restart" -> 14
    [] text = "long question" -> 15
    [] text = "long answer" -> 13
    [] text = "user" -> 6
    [] text = "assistant" -> 11
    [] text = "input_text" -> 12
    [] text = "output_text" -> 13
    [] OTHER -> 1

\* Buffer.byteLength of the same literal: U+00E9 takes two bytes in UTF-8
Utf8Length(text) ==
  CASE text = "caf<U+00E9>" -> 7
    [] OTHER -> Utf16Length(text)

(***************************************************************************)
(* Messages and histories.                                                 *)
(***************************************************************************)
UserMessage(txt) ==
  [role |-> "user", content |-> <<[type |-> "input_text", text |-> txt]>>]

AssistantMessage(botResponseText) ==
  [role |-> "assistant",
   content |-> <<[type |-> "output_text", text |-> botResponseText]>>]

\* this.systemMessage, about 407 tokens by the comment at the trim call
SystemMessages == {"Today's date is Monday ..."}

SystemMessageOf(systemMessage) ==
  [role |-> "system", content |-> <<[type |-> "input_text", text |-> systemMessage]>>]

MAX_TOKENS == 900000

(***************************************************************************)
(* Token counting.                                                         *)
(***************************************************************************)
RECURSIVE SumContent(_)
SumContent(content) ==
  IF content = <<>> THEN 0
  ELSE (IF Head(content).type \in {"input_text", "output_text"}
          THEN encodeLength(Head(content).text) ELSE 0)
       + SumContent(Tail(content))

countTokensInMessage(message) == SumContent(message.content)

RECURSIVE countTokensInMessages(_)
countTokensInMessages(messages) ==
  IF messages = <<>> THEN 0
  ELSE countTokensInMessage(Head(messages)) + countTokensInMessages(Tail(messages))

countTokensInHistory(history) == countTokensInMessages(history)

(***************************************************************************)
(* trimConversationToTokenLimit.                                           *)
(***************************************************************************)
\* faulty variant: the loop keeps the last pair whatever its size
LoopCondition_KeepLastPair(trimmedHistory, systemTokens, userTokens) ==
  /\ systemTokens + userTokens + countTokensInHistory(trimmedHistory) > MAX_TOKENS
  /\ Len(trimmedHistory) > 2

\* faulty variant: the loop goes on while any turn is left
LoopCondition_UntilEmpty(trimmedHistory, systemTokens, userTokens) ==
  /\ systemTokens + userTokens + countTokensInHistory(trimmedHistory) > MAX_TOKENS
  /\ Len(trimmedHistory) >= 1

\* the while condition
LoopCondition(trimmedHistory, systemTokens, userTokens) ==
  /\ systemTokens + userTokens + countTokensInHistory(trimmedHistory) > MAX_TOKENS
  /\ Len(trimmedHistory) >= 2

\* faulty variant: removes the newest pair
Splice02_FromEnd(trimmedHistory) ==
  SubSeq(trimmedHistory, 1, Len(trimmedHistory) - 2)

\* faulty variant: removes one message
Splice02_One(trimmedHistory) ==
  SubSeq(trimmedHistory, 2, Len(trimmedHistory))

\* trimmedHistory.splice(0, 2): what is left in trimmedHistory
Splice02(trimmedHistory) ==
  SubSeq(trimmedHistory, 3, Len(trimmedHistory))

\* faulty variant: the loop body runs once at most
TrimLoop_SinglePass(trimmedHistory, systemTokens, userTokens, iterations) ==
  IF LoopCondition(trimmedHistory, systemTokens, userTokens)
    THEN [trimmedHistory |-> Splice02(trimmedHistory), iterations |-> iterations + 1]
    ELSE [trimmedHistory |-> trimmedHistory, iterations |-> iterations]

\* faulty variant: once the total fits, one more pair is removed
RECURSIVE TrimLoop_OneMore(_, _, _, _)
TrimLoop_OneMore(trimmedHistory, systemTokens, userTokens, iterations) ==
  IF LoopCondition(trimmedHistory, systemTokens, userTokens)
    THEN TrimLoop_OneMore(Splice02(trimmedHistory), systemTokens, userTokens,
                          iterations + 1)
  ELSE IF iterations >= 1 /\ Len(trimmedHistory) >= 2
    THEN [trimmedHistory |-> Splice02(trimmedHistory), iterations |-> iterations + 1]
    ELSE [trimmedHistory |-> trimmedHistory, iterations |-> iterations]

\* the while loop; iterations counts its passes
RECURSIVE TrimLoop(_, _, _, _)
TrimLoop(trimmedHistory, systemTokens, userTokens, iterations) ==
  IF LoopCondition(trimmedHistory, systemTokens, userTokens)
    THEN TrimLoop(Splice02(trimmedHistory), systemTokens, userTokens,
                  iterations + 1)
    ELSE [trimmedHistory |-> trimmedHistory, iterations |-> iterations]

\* faulty variant: the oldest pair is removed before the total is looked at
TrimRun_Preemptive(history, systemTokens, userTokens) ==
  IF Len(history) < 2
    THEN [returned |-> history, iterations |-> 0, warned |-> FALSE]
  ELSE LET r == TrimLoop(Splice02(history), systemTokens, userTokens, 1)
       IN [returned |-> r.trimmedHistory,
           iterations |-> r.iterations,
           warned |-> systemTokens + userTokens
                        + countTokensInHistory(r.trimmedHistory) > MAX_TOKENS]

\* faulty variant: the warning is issued whenever the loop was entered
TrimRun_WarnsWhenTrimmed(history, systemTokens, userTokens) ==
  IF Len(history) = 0
    THEN [returned |-> history, iterations |-> 0, warned |-> FALSE]
  ELSE IF systemTokens + userTokens + countTokensInHistory(history) <= MAX_TOKENS
    THEN [returned |-> history, iterations |-> 0, warned |-> FALSE]
  ELSE LET r == TrimLoop(history, systemTokens, userTokens, 0)
       IN [returned |-> r.trimmedHistory,
           iterations |-> r.iterations,
           warned |-> TRUE]

\* the run of the function: the array returned, the passes of the loop and
\* whether the final console.warn was issued
TrimRun(history, systemTokens, userTokens) ==
  IF Len(history) = 0
    THEN [returned |-> history, iterations |-> 0, warned |-> FALSE]
  ELSE IF systemTokens + userTokens + countTokensInHistory(history) <= MAX_TOKENS
    THEN [returned |-> history, iterations |-> 0, warned |-> FALSE]
  ELSE LET r == TrimLoop(history, systemTokens, userTokens, 0)
       IN [returned |-> r.trimmedHistory,
           iterations |-> r.iterations,
           warned |-> systemTokens + userTokens
                        + countTokensInHistory(r.trimmedHistory) > MAX_TOKENS]

trimConversationToTokenLimit(history, systemTokens, userTokens) ==
  TrimRun(history, systemTokens, userTokens).returned

(***************************************************************************)
(* JSON.  JSON.stringify(history) is the sequence of the lexical tokens of *)
(* the document; JSON.parse reads it back and throws a SyntaxError on      *)
(* anything that is not a complete document.                               *)
(***************************************************************************)
Punct(c) == [k |-> "punct", v |-> c]
Str(s) == [k |-> "str", v |-> s]

RECURSIVE StringifyContent(_)
StringifyContent(content) ==
  IF content = <<>> THEN <<>>
  ELSE <<Punct("{"), Str(Head(content).type), Str(Head(content).text), Punct("}")>>
       \o StringifyContent(Tail(content))

StringifyMessage(message) ==
  <<Punct("{"), Str(message.role), Punct("[")>>
  \o StringifyContent(message.content)
  \o <<Punct("]"), Punct("}")>>

RECURSIVE StringifyMessages(_)
StringifyMessages(history) ==
  IF history = <<>> THEN <<>>
  ELSE StringifyMessage(Head(history)) \o StringifyMessages(Tail(history))

\* JSON.stringify(history)
JSONstringify(history) ==
  <<Punct("[")>> \o StringifyMessages(history) \o <<Punct("]")>>

SyntaxError == [ok |-> FALSE, value |-> <<>>, rest |-> <<>>]

IsPunct(toks, c) == toks # <<>> /\ Head(toks) = Punct(c)

\* the parts of a content array, up to its closing bracket
RECURSIVE ParseContent(_, _)
ParseContent(toks, parts) ==
  IF IsPunct(toks, "]") THEN [ok |-> TRUE, value |-> parts, rest |-> Tail(toks)]
  ELSE IF /\ Len(toks) >= 4
          /\ IsPunct(toks, "{")
          /\ toks[2].k = "str"
          /\ toks[3].k = "str"
          /\ toks[4] = Punct("}")
    THEN ParseContent(SubSeq(toks, 5, Len(toks)),
                      Append(parts, [type |-> toks[2].v, text |-> toks[3].v]))
  ELSE SyntaxError

\* the messages of a history array, up to its closing bracket
RECURSIVE ParseMessages(_, _)
ParseMessages(toks, messages) ==
  IF IsPunct(toks, "]") THEN [ok |-> TRUE, value |-> messages, rest |-> Tail(toks)]
  ELSE IF /\ Len(toks) >= 3
          /\ IsPunct(toks, "{")
          /\ toks[2].k = "str"
          /\ toks[3] = Punct("[")
    THEN LET c == ParseContent(SubSeq(toks, 4, Len(toks)), <<>>)
         IN IF c.ok /\ IsPunct(c.rest, "}")
              THEN ParseMessages(Tail(c.rest),
                                 Append(messages,
                                        [role |-> toks[2].v, content |-> c.value]))
              ELSE SyntaxError
  ELSE SyntaxError

\* JSON.parse(content): ok is FALSE when it throws
JSONparse(content) ==
  IF IsPunct(content, "[")
    THEN LET r == ParseMessages(Tail(content), <<>>)
         IN IF r.ok /\ r.rest = <<>> THEN r ELSE SyntaxError
    ELSE SyntaxError

\* length of a token in UTF-16 code units and in UTF-8 bytes
TokenLength(tok) == IF tok.k = "punct" THEN 1 ELSE Utf16Length(tok.v)
TokenByteLength(tok) == IF tok.k = "punct" THEN 1 ELSE Utf8Length(tok.v)

\* content.length
RECURSIVE StringLength(_)
StringLength(content) ==
  IF content = <<>> THEN 0
  ELSE TokenLength(Head(content)) + StringLength(Tail(content))

\* the first n bytes of the content: the tokens that fit whole (a token cut
\* in two is no token)
RECURSIVE FirstBytes(_, _)
FirstBytes(content, n) ==
  IF content = <<>> \/ TokenByteLength(Head(content)) > n THEN <<>>
  ELSE <<Head(content)>> \o FirstBytes(Tail(content), n - TokenByteLength(Head(content)))

(***************************************************************************)
(* The process environment and the two backends.                           *)
(***************************************************************************)
ConvIds == {"personal-chat-id", "19:meeting"}

\* process.env as the store and index.js read it: USE_LOCAL_STORAGE === 'true',
\* RUNNING_ON_AZURE === '1', and whether an account name or a connection
\* string is set
Envs ==
  { [USE_LOCAL_STORAGE |-> TRUE,  RUNNING_ON_AZURE |-> FALSE, storageConfig |-> FALSE],
    [USE_LOCAL_STORAGE |-> FALSE, RUNNING_ON_AZURE |-> TRUE,  storageConfig |-> TRUE],
    [USE_LOCAL_STORAGE |-> FALSE, RUNNING_ON_AZURE |-> FALSE, storageConfig |-> FALSE] }

\* the directories localStoragePath can name
DirHistory == "__dirname/history"
DirLogFiles == "D:/home/LogFiles/conversation-history"
DirWwwroot == "C:/home/site/wwwroot/data"
DirTmp == "tmpdir/tax-bot-history"
Dirs == {DirHistory, DirLogFiles, DirWwwroot, DirTmp}

NoFile == [exists |-> FALSE, content |-> <<>>]
File(content) == [exists |-> TRUE, content |-> content]

\* the local file system: the directories that exist and <conversationId>.json
\* in each of them
EmptyDisk == [dirs |-> {}, files |-> [d \in Dirs |-> [id \in ConvIds |-> NoFile]]]

\* the storage account: the container and its blobs <conversationId>.json
EmptyCloud == [container |-> FALSE, blobs |-> [id \in ConvIds |-> NoFile]]

\* What the environment does to the calls of one store operation:
\*   existsFailures  how many containerClient.exists() attempts throw
\*   createFails     containerClient.create() throws
\*   mkdirFailures   how many mkdirSync calls throw, counted from the first
\*   opFails         the file or blob call of the operation itself throws
IoOk == [existsFailures |-> 0, createFails |-> FALSE, mkdirFailures |-> 0, opFails |-> FALSE]

Ios ==
  { IoOk,
    [IoOk EXCEPT !.opFails = TRUE],
    [IoOk EXCEPT !.existsFailures = 1],
    [IoOk EXCEPT !.existsFailures = 2],
    [IoOk EXCEPT !.existsFailures = 3],
    [IoOk EXCEPT !.createFails = TRUE],
    [IoOk EXCEPT !.mkdirFailures = 1],
    [IoOk EXCEPT !.existsFailures = 3, !.mkdirFailures = 1],
    [IoOk EXCEPT !.existsFailures = 3, !.mkdirFailures = 2],
    [IoOk EXCEPT !.existsFailures = 3, !.mkdirFailures = 3] }

\* the outcomes the bot's store operations meet in Spec
BotIos ==
  { IoOk,
    [IoOk EXCEPT !.opFails = TRUE],
    [IoOk EXCEPT !.existsFailures = 3],
    [IoOk EXCEPT !.existsFailures = 3, !.mkdirFailures = 3] }

(***************************************************************************)
(* StorageService.  A world w is [svc, disk, cloud]: the fields of the     *)
(* service object, the local file system and the storage account.  Every   *)
(* method returns the world it leaves and whether it threw.                *)
(***************************************************************************)
MkDir(disk, dir) == [disk EXCEPT !.dirs = @ \cup {dir}]

\* faulty variant: the alternative paths are tried wherever the process runs
initializeLocalStorage_FallbackEverywhere(w, env, io) ==
  IF w.svc.localStoragePath \in w.disk.dirs
    THEN [w |-> w, threw |-> FALSE]
  ELSE IF io.mkdirFailures = 0
    THEN [w |-> [w EXCEPT !.disk = MkDir(@, w.svc.localStoragePath)], threw |-> FALSE]
  ELSE IF io.mkdirFailures = 1
    THEN [w |-> [w EXCEPT !.svc.localStoragePath = DirWwwroot,
                          !.disk = MkDir(@, DirWwwroot)],
          threw |-> FALSE]
  ELSE IF io.mkdirFailures = 2
    THEN [w |-> [w EXCEPT !.svc.localStoragePath = DirTmp,
                          !.disk = MkDir(@, DirTmp)],
          threw |-> FALSE]
  ELSE [w |-> [w EXCEPT !.svc.localStoragePath = DirTmp], threw |-> TRUE]

\* initializeLocalStorage()
initializeLocalStorage(w, env, io) ==
  IF w.svc.localStoragePath \in w.disk.dirs
    THEN [w |-> w, threw |-> FALSE]
  ELSE IF io.mkdirFailures = 0
    THEN [w |-> [w EXCEPT !.disk = MkDir(@, w.svc.localStoragePath)], threw |-> FALSE]
  ELSE IF ~env.RUNNING_ON_AZURE
    THEN [w |-> w, threw |-> FALSE]
  ELSE IF io.mkdirFailures = 1
    THEN [w |-> [w EXCEPT !.svc.localStoragePath = DirWwwroot,
                          !.disk = MkDir(@, DirWwwroot)],
          threw |-> FALSE]
  ELSE IF io.mkdirFailures = 2
    THEN [w |-> [w EXCEPT !.svc.localStoragePath = DirTmp,
                          !.disk = MkDir(@, DirTmp)],
          threw |-> FALSE]
  ELSE [w |-> [w EXCEPT !.svc.localStoragePath = DirTmp], threw |-> TRUE]

\* new StorageService()
constructor(disk, cloud, env, io) ==
  LET svc == [initialized |-> FALSE,
              useLocalStorage |-> env.USE_LOCAL_STORAGE,
              localStoragePath |-> IF env.RUNNING_ON_AZURE THEN DirLogFiles
                                                          ELSE DirHistory]
      w == [svc |-> svc, disk |-> disk, cloud |-> cloud]
  IN IF svc.useLocalStorage THEN initializeLocalStorage(w, env, io)
                            ELSE [w |-> w, threw |-> FALSE]

\* faulty variant: the first failure of exists() is not retried
ExistsLoop_NoRetry(retries, failures, attempts) ==
  [threw |-> failures > 0, attempts |-> attempts + 1]

\* the retry loop around containerClient.exists(), entered with retries = 3:
\* failures is the number of attempts that throw from here on, attempts the
\* number made so far
RECURSIVE ExistsLoop(_, _, _)
ExistsLoop(retries, failures, attempts) ==
  IF retries > 0
    THEN IF failures = 0
           THEN [threw |-> FALSE, attempts |-> attempts + 1]
         ELSE IF retries - 1 = 0
           THEN [threw |-> TRUE, attempts |-> attempts + 1]
         ELSE ExistsLoop(retries - 1, failures - 1, attempts + 1)
    ELSE [threw |-> FALSE, attempts |-> attempts]

\* let retries = 3 and the loop
ContainerCheck(io) == ExistsLoop(3, io.existsFailures, 0)

\* the try block of initialize(): TRUE when it throws
CloudInitThrows(w, env, io) ==
  \/ ~env.storageConfig
  \/ ContainerCheck(io).threw
  \/ ~w.cloud.container /\ io.createFails

\* the calls of containerClient.exists() a call of initialize() makes
ExistsAttempts(w, env, io) ==
  IF w.svc.initialized \/ w.svc.useLocalStorage \/ ~env.storageConfig
    THEN 0
    ELSE ContainerCheck(io).attempts

\* the catch block of initialize()
initializeCatch(w, env, io) ==
  initializeLocalStorage(
    [w EXCEPT !.svc.useLocalStorage = TRUE, !.svc.initialized = TRUE], env, io)

\* faulty variant: a failed cloud initialization leaves the store in cloud mode
initialize_NoFallback(w, env, io) ==
  IF w.svc.initialized THEN [w |-> w, threw |-> FALSE]
  ELSE [w |-> [w EXCEPT !.svc.initialized = TRUE], threw |-> FALSE]

\* initialize()
initialize(w, env, io) ==
  IF w.svc.initialized THEN [w |-> w, threw |-> FALSE]
  ELSE IF w.svc.useLocalStorage
    THEN [w |-> [w EXCEPT !.svc.initialized = TRUE], threw |-> FALSE]
  ELSE IF ~CloudInitThrows(w, env, io)
    THEN [w |-> [w EXCEPT !.svc.initialized = TRUE, !.cloud.container = TRUE],
          threw |-> FALSE]
  ELSE initializeLocalStorage(
         [w EXCEPT !.svc.useLocalStorage = TRUE, !.svc.initialized = TRUE],
         env, io)

\* blockBlobClient.upload(content, content.length): the service stores the
\* number of bytes the request announces
Upload(content, contentLength) == File(FirstBytes(content, contentLength))

\* faulty variant: every conversation is saved under the same name
saveConversationHistory_OneName(w, env, conversationId, history, io) ==
  LET i == initialize(w, env, io)
      content == JSONstringify(history)
  IN IF i.threw THEN [w |-> i.w, threw |-> TRUE]
     ELSE IF io.opFails THEN [w |-> i.w, threw |-> FALSE]
     ELSE IF i.w.svc.useLocalStorage
       THEN IF i.w.svc.localStoragePath \in i.w.disk.dirs
              THEN [w |-> [i.w EXCEPT
                             !.disk.files[i.w.svc.localStoragePath]["personal-chat-id"] =
                               File(content)],
                    threw |-> FALSE]
              ELSE [w |-> i.w, threw |-> FALSE]
     ELSE [w |-> [i.w EXCEPT !.cloud.blobs["personal-chat-id"] =
                               Upload(content, StringLength(content))],
           threw |-> FALSE]

\* saveConversationHistory(conversationId, history)
saveConversationHistory(w, env, conversationId, history, io) ==
  LET i == initialize(w, env, io)
      content == JSONstringify(history)
  IN IF i.threw THEN [w |-> i.w, threw |-> TRUE]
     ELSE IF io.opFails THEN [w |-> i.w, threw |-> FALSE]
     ELSE IF i.w.svc.useLocalStorage
       THEN IF i.w.svc.localStoragePath \in i.w.disk.dirs
              THEN [w |-> [i.w EXCEPT
                             !.disk.files[i.w.svc.localStoragePath][conversationId] =
                               File(content)],
                    threw |-> FALSE]
              ELSE [w |-> i.w, threw |-> FALSE]
     ELSE [w |-> [i.w EXCEPT !.cloud.blobs[conversationId] =
                               Upload(content, StringLength(content))],
           threw |-> FALSE]

\* the record the active backend holds for a conversation
Record(w, conversationId) ==
  IF w.svc.useLocalStorage
    THEN w.disk.files[w.svc.localStoragePath][conversationId]
    ELSE w.cloud.blobs[conversationId]

\* content ? JSON.parse(content) : [], inside the try block
ParseOrEmpty(file) ==
  IF ~file.exists \/ file.content = <<>> THEN <<>>
  ELSE LET r == JSONparse(file.content)
       IN IF r.ok THEN r.value ELSE <<>>

\* faulty variant: a record that cannot be parsed is deleted by the load
loadConversationHistory_DeletesCorrupted(w, env, conversationId, io) ==
  LET i == initialize(w, env, io)
      record == Record(i.w, conversationId)
      corrupted == record.exists /\ record.content # <<>> /\ ~JSONparse(record.content).ok
  IN IF i.threw THEN [w |-> i.w, threw |-> TRUE, returned |-> <<>>]
     ELSE IF io.opFails THEN [w |-> i.w, threw |-> FALSE, returned |-> <<>>]
     ELSE IF corrupted
       THEN [w |-> IF i.w.svc.useLocalStorage
                     THEN [i.w EXCEPT
                             !.disk.files[i.w.svc.localStoragePath][conversationId] = NoFile]
                     ELSE [i.w EXCEPT !.cloud.blobs[conversationId] = NoFile],
             threw |-> FALSE, returned |-> <<>>]
     ELSE [w |-> i.w, threw |-> FALSE, returned |-> ParseOrEmpty(record)]

\* loadConversationHistory(conversationId)
loadConversationHistory(w, env, conversationId, io) ==
  LET i == initialize(w, env, io)
  IN IF i.threw THEN [w |-> i.w, threw |-> TRUE, returned |-> <<>>]
     ELSE IF io.opFails THEN [w |-> i.w, threw |-> FALSE, returned |-> <<>>]
     ELSE [w |-> i.w, threw |-> FALSE,
           returned |-> ParseOrEmpty(Record(i.w, conversationId))]

\* faulty variant: the record is left in place
deleteConversationHistory_Keep(w, env, conversationId, io) ==
  LET i == initialize(w, env, io)
  IN [w |-> i.w, threw |-> i.threw]

\* deleteConversationHistory(conversationId)
deleteConversationHistory(w, env, conversationId, io) ==
  LET i == initialize(w, env, io)
  IN IF i.threw THEN [w |-> i.w, threw |-> TRUE]
     ELSE IF io.opFails THEN [w |-> i.w, threw |-> FALSE]
     ELSE IF i.w.svc.useLocalStorage
       THEN [w |-> [i.w EXCEPT
                      !.disk.files[i.w.svc.localStoragePath][conversationId] = NoFile],
             threw |-> FALSE]
     ELSE [w |-> [i.w EXCEPT !.cloud.blobs[conversationId] = NoFile],
           threw |-> FALSE]

(***************************************************************************)
(* State.                                                                  *)
(***************************************************************************)
VARIABLES
  env,        \* process.env, fixed for the life of the deployment
  svc,        \* the StorageService object of the running process
  disk,       \* the local file system
  cloud,      \* the storage account
  memory,     \* MemoryStorage: conversationHistory of each conversation
  turn,       \* the onMessage invocations in flight
  turns,      \* messages received so far
  requested,  \* conversations a request was built for since the process started
  lastSaved,  \* the history the last turn of each conversation handed to save
  trim,       \* SpecTrim: one call of trimConversationToTokenLimit
  ops,        \* SpecStore: store operations issued so far
  lastOp,     \* SpecStore: the last store operation and what it returned
  prevOp,     \* SpecStore: the operation before it
  twin        \* SpecBackends: a second store, on local files, given the same
              \* operations, and what its last operation returned

vars == <<env, svc, disk, cloud, memory, turn, turns,
          requested, lastSaved, trim, ops, lastOp, prevOp, twin>>

storeVars == <<env, svc, disk, cloud>>
botVars == <<memory, turn, turns, requested, lastSaved>>
driverVars == <<ops, lastOp, prevOp, twin>>

World == [svc |-> svc, disk |-> disk, cloud |-> cloud]

Procs == 1..MaxInFlight

\* existed: the delete found a record ("Deleted ...", not "... not found")
NoOp == [op |-> "none", conversationId |-> "", history |-> <<>>,
         io |-> IoOk, threw |-> FALSE, returned |-> <<>>, backend |-> "",
         existed |-> FALSE, attempts |-> 0]

\* the configurations of the two backends
LocalEnv == [USE_LOCAL_STORAGE |-> TRUE, RUNNING_ON_AZURE |-> FALSE, storageConfig |-> FALSE]
CloudEnv == [USE_LOCAL_STORAGE |-> FALSE, RUNNING_ON_AZURE |-> TRUE, storageConfig |-> TRUE]

\* the second store as its constructor leaves it
NoTwin == [w |-> constructor(EmptyDisk, EmptyCloud, LocalEnv, IoOk).w, returned |-> <<>>]

\* nothing saved: no turn yet, or the last turn was a reset
NoSave == [history |-> <<>>, io |-> IoOk]

\* the activities the bot sends
Typing == [type |-> "typing", text |-> <<>>]
Message(parts) == [type |-> "message", text |-> parts]

ResetConfirmation == "Conversation history has been reset! Let's start over!"
standardDisclaimer == "**DISCLAIMER:** U.S. Tax Assistant provides general tax information ..."
RestartHint == "You can type '/restart' anytime to start fresh!"
shortDisclaimer == "\n\n---\n*Note: This is not professional tax advice. ...*"
Apology == "I'm sorry, I'm having trouble processing your request. Please try again later."
UnhandledError == "The bot encountered an unhandled error:\n ${error.message}"
FixSourceCode == "To continue to run this bot, please fix the bot source code."

NEEDS_DISCLAIMER == "NEEDS_DISCLAIMER"
NO_DISCLAIMER_NEEDED == "NO_DISCLAIMER_NEEDED"
CLASSIFICATION_LABELS == {NEEDS_DISCLAIMER, NO_DISCLAIMER_NEEDED}

NoClassification == [class_label |-> "", explanation |-> ""]

\* what the conversation held when the turn began
NoSnapshot == [memory |-> <<>>, files |-> [d \in Dirs |-> NoFile], blob |-> NoFile]

\* a slot with no turn in it.  Besides the handler's locals a turn records
\* what happened to it: kind, modelFailed, instructor (the outcome of the
\* classifier's call), io (the outcome of its last store operation),
\* loaded/restored (the restore from the store), iterations (the passes of
\* the trimmer's loop), first (its request is the first one built for the
\* conversation since the process started) and before (the snapshot taken
\* when it began).
IdleTurn ==
  [pc |-> "idle", conversationId |-> "", txt |-> "", kind |-> "",
   conversationHistory |-> <<>>, systemMessage |-> "", messages |-> <<>>,
   botResponseText |-> "", classification |-> NoClassification,
   instructor |-> "", modelFailed |-> FALSE, sent |-> <<>>,
   io |-> IoOk, threw |-> FALSE, loaded |-> FALSE, restored |-> <<>>,
   iterations |-> 0, first |-> FALSE, before |-> NoSnapshot]

IdleTrim == [history |-> <<>>, systemTokens |-> 0, userTokens |-> 0,
             done |-> FALSE, returned |-> <<>>, iterations |-> 0, warned |-> FALSE,
             again |-> [done |-> FALSE, returned |-> <<>>]]

(***************************************************************************)
(* SpecTrim: trimConversationToTokenLimit applied to every history of at   *)
(* most MaxLen messages.                                                   *)
(***************************************************************************)
TrimMessages ==
  {UserMessage(t) : t \in {"hi", "long question"}}
  \cup {AssistantMessage(t) : t \in ResponseTexts}

RECURSIVE SeqsUpTo(_, _)
SeqsUpTo(S, n) ==
  IF n = 0 THEN {<<>>}
  ELSE LET shorter == SeqsUpTo(S, n - 1)
       IN shorter \cup {Append(h, m) : h \in {x \in shorter : Len(x) = n - 1}, m \in S}

TrimSystemTokens == {0, 407, 450000, 900001}
TrimUserTokens == {0, 2}

Even(n) == n % 2 = 0

\* everything but trim, as the process leaves it before its first message
QuietBot ==
  /\ memory = [c \in ConvIds |-> <<>>]
  /\ turn = [p \in Procs |-> IdleTurn]
  /\ turns = 0
  /\ requested = {}
  /\ lastSaved = [c \in ConvIds |-> NoSave]

QuietStore ==
  /\ env = [USE_LOCAL_STORAGE |-> TRUE, RUNNING_ON_AZURE |-> FALSE, storageConfig |-> FALSE]
  /\ svc = constructor(EmptyDisk, EmptyCloud, env, IoOk).w.svc
  /\ disk = constructor(EmptyDisk, EmptyCloud, env, IoOk).w.disk
  /\ cloud = EmptyCloud

QuietDriver ==
  /\ ops = 0
  /\ lastOp = NoOp
  /\ prevOp = NoOp
  /\ twin = NoTwin

InitTrim ==
  /\ QuietBot
  /\ QuietStore
  /\ QuietDriver
  /\ \E h \in SeqsUpTo(TrimMessages, MaxLen), s \in TrimSystemTokens, u \in TrimUserTokens :
       trim = [IdleTrim EXCEPT !.history = h, !.systemTokens = s, !.userTokens = u]

\* the call returns
TrimCall ==
  /\ ~trim.done
  /\ LET r == TrimRun(trim.history, trim.systemTokens, trim.userTokens)
     IN trim' = [trim EXCEPT !.done = TRUE, !.returned = r.returned,
                             !.iterations = r.iterations, !.warned = r.warned]
  /\ UNCHANGED <<storeVars, botVars, driverVars>>

\* the function is called on what it returned, with the same token counts
TrimAgain ==
  /\ trim.done
  /\ ~trim.again.done
  /\ trim' = [trim EXCEPT !.again =
       [done |-> TRUE,
        returned |-> trimConversationToTokenLimit(trim.returned, trim.systemTokens,
                                                  trim.userTokens)]]
  /\ UNCHANGED <<storeVars, botVars, driverVars>>

NextTrim == TrimCall \/ TrimAgain

SpecTrim == InitTrim /\ [][NextTrim]_vars

\* C1: trimConversationToTokenLimit(H, S, 0) returns H' with
\* S + tokensOf(H') <= MAX_TOKENS, or with at most one turn left.
C1_BudgetOrAtMostOneTurn ==
  (trim.done /\ trim.userTokens = 0) =>
     \/ trim.systemTokens + countTokensInHistory(trim.returned) <= MAX_TOKENS
     \/ Len(trim.returned) <= 1

\* a call that removed exchanges and returned a history of several turns that fits
C1_Witness ==
  /\ trim.done /\ trim.userTokens = 0
  /\ trim.iterations >= 1
  /\ Len(trim.returned) >= 2
  /\ trim.systemTokens + countTokensInHistory(trim.returned) <= MAX_TOKENS

\* C4: the history returned is the input without its first 2k messages, in
\* the input's order, for the k passes the loop made.
C4_ResultIsSuffix ==
  trim.done =>
    /\ 2 * trim.iterations <= Len(trim.history)
    /\ trim.returned = SubSeq(trim.history, 2 * trim.iterations + 1, Len(trim.history))

\* a call that removed one exchange of a history whose exchanges differ
C4_Witness ==
  /\ trim.done
  /\ trim.iterations = 1
  /\ Len(trim.history) = 4
  /\ trim.history[1] # trim.history[3]
  /\ trim.returned = <<trim.history[3], trim.history[4]>>

\* C11: trimmer(trimmer(H, S, 0), S, 0) has the content of trimmer(H, S, 0).
C11_TrimIsIdempotent ==
  (trim.again.done /\ trim.userTokens = 0) => trim.again.returned = trim.returned

\* a second call on a history the first call had to shorten
C11_Witness ==
  /\ trim.again.done /\ trim.userTokens = 0
  /\ trim.iterations >= 1
  /\ trim.returned # <<>>
  /\ trim.again.returned = trim.returned

\* the total the function compares with MAX_TOKENS on entry
TotalOnEntry ==
  trim.systemTokens + trim.userTokens + countTokensInHistory(trim.history)

\* C12: if the history is empty, or systemTokens + userTokens +
\* tokensOf(history) <= MAX_TOKENS, the history is returned unchanged and no
\* pass of the loop is made.
C12_TrimIsLazy ==
  (trim.done /\ (trim.history = <<>> \/ TotalOnEntry <= MAX_TOKENS)) =>
     /\ trim.returned = trim.history
     /\ trim.iterations = 0

\* a call on a history that fills the budget to the last token
C12_Witness ==
  /\ trim.done
  /\ trim.history # <<>>
  /\ TotalOnEntry = MAX_TOKENS
  /\ trim.returned = trim.history

\* the newest exchange of the input alone exceeds what the system message
\* leaves of the budget
LastExchange ==
  SubSeq(trim.history, Len(trim.history) - 1, Len(trim.history))

SingleExchangeExceeds ==
  /\ Len(trim.history) >= 2
  /\ trim.systemTokens <= MAX_TOKENS
  /\ trim.systemTokens + countTokensInHistory(LastExchange) > MAX_TOKENS

\* C13 as claimed: when a single exchange alone exceeds MAX_TOKENS the
\* function returns at most one exchange and issues the warning.
C13_OversizedExchangeIsReportedWithWarning ==
  (trim.done /\ trim.userTokens = 0 /\ SingleExchangeExceeds) =>
     /\ Len(trim.returned) <= 2
     /\ trim.warned

\* C13 amended: the warning is issued exactly when the input was not empty
\* and what is returned still exceeds the budget.  When a single exchange alone exceeds the budget that
\* exchange is removed as well: of a history of whole exchanges nothing is
\* left and no warning is issued; of a history of odd length the last message
\* is left, with the warning if it exceeds the budget.
C13_WarningOnlyWhenResultExceeds ==
  trim.done =>
     /\ trim.warned <=>
          /\ trim.history # <<>>
          /\ trim.systemTokens + trim.userTokens
               + countTokensInHistory(trim.returned) > MAX_TOKENS
     /\ (trim.userTokens = 0 /\ SingleExchangeExceeds) =>
          /\ Len(trim.returned) <= 1
          /\ Even(Len(trim.history)) => (trim.returned = <<>> /\ ~trim.warned)
          /\ ~Even(Len(trim.history)) =>
               trim.returned = <<trim.history[Len(trim.history)]>>

\* an oversized exchange was removed, nothing is left and nothing was warned
C13_Witness ==
  /\ trim.done /\ trim.userTokens = 0
  /\ SingleExchangeExceeds
  /\ trim.iterations >= 1
  /\ trim.returned = <<>>
  /\ ~trim.warned

(***************************************************************************)
(* The classifier.                                                         *)
(***************************************************************************)
\* what instructor.chat.completions.create does: it returns an object that
\* passed the schema (class_label one of the two labels), or it throws (the
\* request failed, or the output did not validate after max_retries)
InstructorOutcomes ==
  {NEEDS_DISCLAIMER, NO_DISCLAIMER_NEEDED, "request failed", "validation failed"}

\* faulty variant: a failed classification shows no disclaimer
classifyTextForDisclaimer_FailOpen(outcome) ==
  IF outcome \in CLASSIFICATION_LABELS
    THEN [threw |-> FALSE,
          value |-> [class_label |-> outcome, explanation |-> "from the model"]]
    ELSE [threw |-> FALSE,
          value |-> [class_label |-> NO_DISCLAIMER_NEEDED,
                     explanation |-> "Classification failed"]]

\* classifyTextForDisclaimer(openaiClient, text)
classifyTextForDisclaimer(outcome) ==
  IF outcome \in CLASSIFICATION_LABELS
    THEN [threw |-> FALSE,
          value |-> [class_label |-> outcome, explanation |-> "from the model"]]
    ELSE [threw |-> FALSE,
          value |-> [class_label |-> NEEDS_DISCLAIMER,
                     explanation |-> "Classification failed, defaulting to showing disclaimer for safety"]]

(***************************************************************************)
(* The environment's part in a store operation.                            *)
(***************************************************************************)
\* the outcomes that can differ from IoOk in the world w
EffectiveIos(w) ==
  IF w.svc.initialized THEN {io \in Ios : io = [IoOk EXCEPT !.opFails = io.opFails]}
                       ELSE Ios

Allowed(io) == io \in EffectiveIos(World)

SetWorld(w) ==
  /\ svc' = w.svc
  /\ disk' = w.disk
  /\ cloud' = w.cloud

Snapshot(conversationId) ==
  [memory |-> memory[conversationId],
   files |-> [d \in Dirs |-> disk.files[d][conversationId]],
   blob |-> cloud.blobs[conversationId]]

(***************************************************************************)
(* onMessage.  One action for each stretch of the handler between two      *)
(* awaits that touch shared state.                                         *)
(***************************************************************************)
\* a message arrives and the handler starts
Receive(p, conversationId, text) ==
  /\ turn[p].pc = "idle"
  /\ turns < MaxTurns
  /\ turns' = turns + 1
  /\ LET removedMentionText == removeRecipientMention(text)
         txt == StringTrim(removedMentionText)
     IN turn' = [turn EXCEPT ![p] =
          [IdleTurn EXCEPT
             !.pc = IF toLowerCase(txt) = RestartCommand THEN "reset" ELSE "start",
             !.kind = IF toLowerCase(txt) = RestartCommand THEN "reset" ELSE "normal",
             !.conversationId = conversationId,
             !.txt = txt,
             !.before = Snapshot(conversationId)]]
  /\ UNCHANGED <<storeVars, memory, requested, lastSaved, trim, driverVars>>

\* reset: conversationHistoryAccessor.set(context, []) and saveChanges
ResetMemory(p) ==
  /\ turn[p].pc = "reset"
  /\ memory' = [memory EXCEPT ![turn[p].conversationId] = <<>>]
  /\ turn' = [turn EXCEPT ![p].pc = "reset_delete"]
  /\ UNCHANGED <<storeVars, turns, requested, lastSaved, trim, driverVars>>

\* reset: storageService.deleteConversationHistory(conversationId); if it
\* throws, nothing in the handler catches it
ResetDelete(p, io) ==
  /\ turn[p].pc = "reset_delete"
  /\ Allowed(io)
  /\ LET r == deleteConversationHistory(World, env, turn[p].conversationId, io)
     IN /\ SetWorld(r.w)
        /\ turn' = [turn EXCEPT ![p].pc = IF r.threw THEN "turn_error" ELSE "reset_reply",
                                ![p].io = io,
                                ![p].threw = r.threw]
  /\ lastSaved' = [lastSaved EXCEPT ![turn[p].conversationId] = NoSave]
  /\ UNCHANGED <<env, memory, turns, requested, trim, driverVars>>

\* faulty variant: the reset branch does not return after its replies
ResetReply_FallsThrough(p) ==
  /\ turn[p].pc = "reset_reply"
  /\ turn' = [turn EXCEPT ![p].pc = "start",
                          ![p].sent = @ \o <<Message(<<ResetConfirmation>>),
                                             Message(<<standardDisclaimer>>),
                                             Message(<<RestartHint>>)>>]
  /\ UNCHANGED <<storeVars, memory, turns, requested, lastSaved, trim, driverVars>>

\* reset: the three activities
ResetReply(p) ==
  /\ turn[p].pc = "reset_reply"
  /\ turn' = [turn EXCEPT ![p].pc = "done",
                          ![p].sent = @ \o <<Message(<<ResetConfirmation>>),
                                             Message(<<standardDisclaimer>>),
                                             Message(<<RestartHint>>)>>]
  /\ UNCHANGED <<storeVars, memory, turns, requested, lastSaved, trim, driverVars>>

\* conversationHistoryAccessor.get(context, [])
GetHistory(p) ==
  /\ turn[p].pc = "start"
  /\ turn' = [turn EXCEPT
       ![p].conversationHistory = memory[turn[p].conversationId],
       ![p].pc = IF Len(memory[turn[p].conversationId]) = 0 THEN "restore" ELSE "typing"]
  /\ UNCHANGED <<storeVars, memory, turns, requested, lastSaved, trim, driverVars>>

\* the restore from the store; whatever it throws is caught
Restore(p, io) ==
  /\ turn[p].pc = "restore"
  /\ Allowed(io)
  /\ LET r == loadConversationHistory(World, env, turn[p].conversationId, io)
         savedHistory == IF r.threw THEN <<>> ELSE r.returned
     IN /\ SetWorld(r.w)
        /\ turn' = [turn EXCEPT
             ![p].conversationHistory = IF Len(savedHistory) > 0 THEN savedHistory ELSE @,
             ![p].io = io,
             ![p].threw = r.threw,
             ![p].loaded = TRUE,
             ![p].restored = savedHistory,
             ![p].pc = "typing"]
  /\ UNCHANGED <<env, memory, turns, requested, lastSaved, trim, driverVars>>

\* faulty variant: the new user turn is put before the history
BuildRequest_UserBeforeHistory(p, systemMessage) ==
  /\ turn[p].pc = "typing"
  /\ turn' = [turn EXCEPT
       ![p].sent = Append(@, Typing),
       ![p].systemMessage = systemMessage,
       ![p].messages = <<SystemMessageOf(systemMessage), UserMessage(turn[p].txt)>>
                       \o turn[p].conversationHistory,
       ![p].first = turn[p].conversationId \notin requested,
       ![p].pc = "model"]
  /\ requested' = requested \cup {turn[p].conversationId}
  /\ UNCHANGED <<storeVars, memory, turns, lastSaved, trim, driverVars>>

\* the typing indicator, the system message, the messages array, and the
\* request to the model
BuildRequest(p, systemMessage) ==
  /\ turn[p].pc = "typing"
  /\ turn' = [turn EXCEPT
       ![p].sent = Append(@, Typing),
       ![p].systemMessage = systemMessage,
       ![p].messages = <<SystemMessageOf(systemMessage)>>
                       \o turn[p].conversationHistory
                       \o <<UserMessage(turn[p].txt)>>,
       ![p].first = turn[p].conversationId \notin requested,
       ![p].pc = "model"]
  /\ requested' = requested \cup {turn[p].conversationId}
  /\ UNCHANGED <<storeVars, memory, turns, lastSaved, trim, driverVars>>

\* the model answers
ModelResponds(p, botResponseText) ==
  /\ turn[p].pc = "model"
  /\ turn' = [turn EXCEPT ![p].botResponseText = botResponseText,
                          ![p].pc = "classify"]
  /\ UNCHANGED <<storeVars, memory, turns, requested, lastSaved, trim, driverVars>>

\* faulty variant: the user's turn is kept when the model call fails
ModelFails_KeepsUserTurn(p) ==
  /\ turn[p].pc = "model"
  /\ memory' = [memory EXCEPT ![turn[p].conversationId] =
                  Append(turn[p].conversationHistory, UserMessage(turn[p].txt))]
  /\ turn' = [turn EXCEPT ![p].modelFailed = TRUE,
                          ![p].sent = Append(@, Message(<<Apology>>)),
                          ![p].pc = "done"]
  /\ UNCHANGED <<storeVars, turns, requested, lastSaved, trim, driverVars>>

\* the model call throws: the catch block
ModelFails(p) ==
  /\ turn[p].pc = "model"
  /\ turn' = [turn EXCEPT ![p].modelFailed = TRUE,
                          ![p].sent = Append(@, Message(<<Apology>>)),
                          ![p].pc = "done"]
  /\ UNCHANGED <<storeVars, memory, turns, requested, lastSaved, trim, driverVars>>

\* classifyTextForDisclaimer
Classify(p, outcome) ==
  /\ turn[p].pc = "classify"
  /\ LET r == classifyTextForDisclaimer(outcome)
     IN turn' = [turn EXCEPT
          ![p].instructor = outcome,
          ![p].classification = IF r.threw THEN @ ELSE r.value,
          ![p].sent = IF r.threw THEN Append(@, Message(<<Apology>>)) ELSE @,
          ![p].pc = IF r.threw THEN "done" ELSE "reply"]
  /\ UNCHANGED <<storeVars, memory, turns, requested, lastSaved, trim, driverVars>>

\* faulty variant: the reply is the model's text alone
Reply_WithoutDisclaimer(p) ==
  /\ turn[p].pc = "reply"
  /\ turn' = [turn EXCEPT
       ![p].sent = Append(@, Message(<<turn[p].botResponseText>>)),
       ![p].instructor = "",
       ![p].pc = "append"]
  /\ UNCHANGED <<storeVars, memory, turns, requested, lastSaved, trim, driverVars>>

\* the reply, with the short disclaimer if the label asks for it
Reply(p) ==
  /\ turn[p].pc = "reply"
  /\ turn' = [turn EXCEPT
       ![p].sent = Append(@,
          IF turn[p].classification.class_label = NEEDS_DISCLAIMER
            THEN Message(<<turn[p].botResponseText, shortDisclaimer>>)
            ELSE Message(<<turn[p].botResponseText>>)),
       ![p].instructor = "",
       ![p].pc = "append"]
  /\ UNCHANGED <<storeVars, memory, turns, requested, lastSaved, trim, driverVars>>

\* faulty variant: the assistant's turn is pushed first
Pushed_AssistantFirst(p) ==
  turn[p].conversationHistory
  \o <<AssistantMessage(turn[p].botResponseText), UserMessage(turn[p].txt)>>

\* faulty variant: the assistant's turn is stored as it was sent
Pushed_AsSent(p) ==
  turn[p].conversationHistory
  \o <<UserMessage(turn[p].txt),
       AssistantMessage(
         IF turn[p].classification.class_label = NEEDS_DISCLAIMER
           THEN turn[p].botResponseText \o shortDisclaimer
           ELSE turn[p].botResponseText)>>

\* the two pushes
Pushed(p) ==
  turn[p].conversationHistory
  \o <<UserMessage(turn[p].txt), AssistantMessage(turn[p].botResponseText)>>

\* faulty variant: the conversation state is not saved before the store is
AppendTrimSave_WithoutSaveChanges(p) ==
  /\ turn[p].pc = "append"
  /\ LET systemTokens == encodeLength(turn[p].systemMessage)
         r == TrimRun(Pushed(p), systemTokens, 0)
     IN turn' = [turn EXCEPT ![p].conversationHistory = r.returned,
                             ![p].classification = NoClassification,
                             ![p].iterations = r.iterations,
                             ![p].pc = "persist"]
  /\ UNCHANGED <<storeVars, memory, turns, requested, lastSaved, trim, driverVars>>

\* the pushes, the trim, and set and saveChanges
AppendTrimSave(p) ==
  /\ turn[p].pc = "append"
  /\ LET systemTokens == encodeLength(turn[p].systemMessage)
         r == TrimRun(Pushed(p), systemTokens, 0)
         conversationHistory ==
           trimConversationToTokenLimit(Pushed(p), systemTokens, 0)
     IN /\ turn' = [turn EXCEPT ![p].conversationHistory = conversationHistory,
                                ![p].classification = NoClassification,
                                ![p].iterations = r.iterations,
                                ![p].pc = "persist"]
        /\ memory' = [memory EXCEPT ![turn[p].conversationId] = conversationHistory]
  /\ UNCHANGED <<storeVars, turns, requested, lastSaved, trim, driverVars>>

\* storageService.saveConversationHistory; if it throws, the handler's
\* catch block sends the apology
Persist(p, io) ==
  /\ turn[p].pc = "persist"
  /\ Allowed(io)
  /\ LET r == saveConversationHistory(World, env, turn[p].conversationId,
                                      turn[p].conversationHistory, io)
     IN /\ SetWorld(r.w)
        /\ turn' = [turn EXCEPT
             ![p].io = io,
             ![p].threw = r.threw,
             ![p].sent = IF r.threw THEN Append(@, Message(<<Apology>>)) ELSE @,
             ![p].pc = "done"]
  /\ lastSaved' = [lastSaved EXCEPT ![turn[p].conversationId] =
                     [history |-> turn[p].conversationHistory, io |-> io]]
  /\ UNCHANGED <<env, memory, turns, requested, trim, driverVars>>

\* adapter.onTurnError (index.js): the error is reported to the user and the
\* conversation state is deleted
TurnError(p) ==
  /\ turn[p].pc = "turn_error"
  /\ turn' = [turn EXCEPT ![p].sent = @ \o <<Message(<<UnhandledError>>),
                                             Message(<<FixSourceCode>>)>>,
                          ![p].pc = "done"]
  /\ memory' = [memory EXCEPT ![turn[p].conversationId] = <<>>]
  /\ UNCHANGED <<storeVars, turns, requested, lastSaved, trim, driverVars>>

\* next(): the handler returns
Finish(p) ==
  /\ turn[p].pc = "done"
  /\ turn' = [turn EXCEPT ![p] = IdleTurn]
  /\ UNCHANGED <<storeVars, memory, turns, requested, lastSaved, trim, driverVars>>

(***************************************************************************)
(* index.js: the process starts again.                                     *)
(***************************************************************************)
\* the auto-delete of history/personal-chat-id.json
StartupDeletion(d, e) ==
  IF e.USE_LOCAL_STORAGE
    THEN [d EXCEPT !.files[DirHistory]["personal-chat-id"] = NoFile]
    ELSE d

\* faulty variant: the start-up leaves the local history alone
StartProcess_KeepHistory(d, c, e, io) == constructor(d, c, e, io)

\* require("./teamsBot") constructs the store, then the auto-delete runs
StartProcess(d, c, e, io) ==
  LET r == constructor(d, c, e, io)
  IN [r EXCEPT !.w.disk = StartupDeletion(@, e)]

ConstructorIos == {io \in Ios : io = [IoOk EXCEPT !.mkdirFailures = io.mkdirFailures]}

\* the process is restarted: what was in memory and in flight is lost, what
\* is on disk and in the storage account stays
Restart(io) ==
  /\ io \in ConstructorIos
  /\ LET r == StartProcess(disk, cloud, env, io)
     IN /\ ~r.threw
        /\ SetWorld(r.w)
  /\ memory' = [c \in ConvIds |-> <<>>]
  /\ turn' = [p \in Procs |-> IdleTurn]
  /\ requested' = {}
  /\ UNCHANGED <<env, turns, lastSaved, trim, driverVars>>

(***************************************************************************)
(* Spec: the bot; one user's turns, handled one after another.             *)
(***************************************************************************)
Init ==
  /\ env \in Envs
  /\ \E io \in ConstructorIos :
       LET r == StartProcess(EmptyDisk, EmptyCloud, env, io)
       IN /\ ~r.threw
          /\ svc = r.w.svc
          /\ disk = r.w.disk
          /\ cloud = r.w.cloud
  /\ QuietBot
  /\ QuietDriver
  /\ trim = IdleTrim

NoTurnInFlight == \A q \in Procs : turn[q].pc = "idle"

Step(p) ==
  \/ ResetMemory(p)
  \/ \E io \in BotIos : ResetDelete(p, io)
  \/ ResetReply(p)
  \/ GetHistory(p)
  \/ \E io \in BotIos : Restore(p, io)
  \/ \E systemMessage \in SystemMessages : BuildRequest(p, systemMessage)
  \/ \E botResponseText \in BotResponseTexts : ModelResponds(p, botResponseText)
  \/ ModelFails(p)
  \/ \E outcome \in InstructorOutcomes : Classify(p, outcome)
  \/ Reply(p)
  \/ AppendTrimSave(p)
  \/ \E io \in BotIos : Persist(p, io)
  \/ TurnError(p)
  \/ Finish(p)

Next ==
  \/ \E conversationId \in ConvIds, text \in ActivityTexts :
       NoTurnInFlight /\ Receive(1, conversationId, text)
  \/ \E p \in Procs : Step(p)
  \/ \E io \in ConstructorIos : Restart(io)

Spec == Init /\ [][Next]_vars

(***************************************************************************)
(* SpecStore: the store alone, driven by any sequence of at most MaxOps    *)
(* operations.                                                             *)
(***************************************************************************)
StoreHistories ==
  { <<UserMessage("hi"), AssistantMessage("ok")>>,
    <<UserMessage("caf<U+00E9>"), AssistantMessage("ok")>>,
    <<UserMessage("hi"), AssistantMessage("ok"),
      UserMessage("long question"), AssistantMessage("long answer")>> }

Backend(w) == IF w.svc.useLocalStorage THEN "local" ELSE "cloud"

InitStore ==
  /\ env \in Envs
  /\ \E io \in ConstructorIos :
       LET r == constructor(EmptyDisk, EmptyCloud, env, io)
       IN /\ ~r.threw
          /\ svc = r.w.svc
          /\ disk = r.w.disk
          /\ cloud = r.w.cloud
  /\ QuietBot
  /\ QuietDriver
  /\ trim = IdleTrim

Issue(op) ==
  /\ ops < MaxOps
  /\ ops' = ops + 1
  /\ prevOp' = lastOp
  /\ lastOp' = op
  /\ UNCHANGED <<env, botVars, trim, twin>>

DriverSave(conversationId, history, io) ==
  /\ Allowed(io)
  /\ LET r == saveConversationHistory(World, env, conversationId, history, io)
     IN /\ SetWorld(r.w)
        /\ Issue([NoOp EXCEPT !.op = "save", !.conversationId = conversationId,
                              !.history = history, !.io = io, !.threw = r.threw,
                              !.backend = Backend(r.w),
                              !.attempts = ExistsAttempts(World, env, io)])

DriverLoad(conversationId, io) ==
  /\ Allowed(io)
  /\ LET r == loadConversationHistory(World, env, conversationId, io)
     IN /\ SetWorld(r.w)
        /\ Issue([NoOp EXCEPT !.op = "load", !.conversationId = conversationId,
                              !.io = io, !.threw = r.threw,
                              !.returned = r.returned,
                              !.backend = Backend(r.w),
                              !.attempts = ExistsAttempts(World, env, io)])

DriverDelete(conversationId, io) ==
  /\ Allowed(io)
  /\ LET r == deleteConversationHistory(World, env, conversationId, io)
     IN /\ SetWorld(r.w)
        /\ Issue([NoOp EXCEPT !.op = "delete", !.conversationId = conversationId,
                              !.io = io, !.threw = r.threw,
                              !.backend = Backend(r.w),
                              !.attempts = ExistsAttempts(World, env, io),
                              !.existed = /\ ~r.threw /\ ~io.opFails
                                          /\ Record(initialize(World, env, io).w,
                                                    conversationId).exists])

NextStore ==
  \/ \E conversationId \in ConvIds, history \in StoreHistories, io \in Ios :
       DriverSave(conversationId, history, io)
  \/ \E conversationId \in ConvIds, io \in Ios : DriverLoad(conversationId, io)
  \/ \E conversationId \in ConvIds, io \in Ios : DriverDelete(conversationId, io)

SpecStore == InitStore /\ [][NextStore]_vars

\* a load that directly follows a save of the same conversation, with no
\* failing call in either and a directory to write to
SaveThenLoad ==
  /\ lastOp.op = "load"
  /\ prevOp.op = "save"
  /\ lastOp.conversationId = prevOp.conversationId
  /\ prevOp.history # <<>>
  /\ prevOp.io = IoOk /\ lastOp.io = IoOk
  /\ ~prevOp.threw /\ ~lastOp.threw
  /\ svc.useLocalStorage => svc.localStoragePath \in disk.dirs

\* C5: save(id, H) followed by load(id) returns a history equal to H, on the
\* local-filesystem and on the cloud-blob backend (stated for the runs in
\* which no storage call fails).
C5_SaveThenLoadReturnsSaved ==
  SaveThenLoad => lastOp.returned = prevOp.history

\* a load that directly follows a delete of the same conversation
DeleteThenLoad ==
  /\ lastOp.op = "load"
  /\ prevOp.op = "delete"
  /\ lastOp.conversationId = prevOp.conversationId

DeleteStep == ops' = ops + 1 /\ lastOp'.op = "delete"

\* no backend holds a record of the conversation
NoRecordAnywhere(conversationId) ==
  /\ ~cloud.blobs[conversationId].exists
  /\ \A d \in Dirs : ~disk.files[d][conversationId].exists

\* the only way out of a delete with an error: the first operation of the
\* process, on Azure, finds the storage account unusable and no directory
\* it can create
DeleteThrowsOnlyFromInitialize ==
  (DeleteStep /\ lastOp'.threw) =>
     /\ ~svc.initialized
     /\ env.RUNNING_ON_AZURE
     /\ lastOp'.io.mkdirFailures >= 3

C15_LoadNeverRaises ==
  lastOp.op = "load" =>
    /\ ~lastOp.threw
    /\ lastOp.returned \in {<<>>, ParseOrEmpty(Record(World, lastOp.conversationId))}

\* C16: save(id, history) never raises an error to its caller, whatever fails
\* in the backend or in initialization.
C16_SaveNeverRaises ==
  lastOp.op = "save" => ~lastOp.threw

(***************************************************************************)
(* Properties of the bot (Spec).                                           *)
(***************************************************************************)
ConvOf(p) == turn[p].conversationId

\* the path exists, when the store works on the local file system
Writable == svc.useLocalStorage => svc.localStoragePath \in disk.dirs

\* C2: every request sent to the model satisfies
\* systemTokens + userTokens + historyTokens <= MAX_TOKENS.
C2_EveryRequestWithinBudget ==
  \A p \in Procs :
    turn[p].pc = "model" =>
      encodeLength(turn[p].systemMessage)
        + encodeLength(turn[p].txt)
        + countTokensInHistory(turn[p].conversationHistory) <= MAX_TOKENS

\* C3: the in-memory history and the persisted history of every conversation
\* have even length, and so has the history a turn works on.
C3_HistoriesHaveEvenLength ==
  /\ \A c \in ConvIds :
       /\ Even(Len(memory[c]))
       /\ Even(Len(ParseOrEmpty(cloud.blobs[c])))
       /\ \A d \in Dirs : Even(Len(ParseOrEmpty(disk.files[d][c])))
  /\ \A p \in Procs : Even(Len(turn[p].conversationHistory))

\* a turn whose trim removed an exchange and kept another, saved and persisted
C3_Witness ==
  \E p \in Procs :
    /\ turn[p].pc = "done" /\ turn[p].kind = "normal"
    /\ turn[p].iterations >= 1
    /\ Len(turn[p].conversationHistory) >= 2
    /\ memory[ConvOf(p)] = turn[p].conversationHistory
    /\ ParseOrEmpty(Record(World, ConvOf(p))) = turn[p].conversationHistory

\* C6: a turn whose model call failed has sent the apology and leaves the
\* in-memory and the durable history of its conversation as they were when
\* it began.
C6_FailedTurnChangesNothing ==
  \A p \in Procs :
    (turn[p].pc = "done" /\ turn[p].modelFailed) =>
      /\ turn[p].sent = <<Typing, Message(<<Apology>>)>>
      /\ Snapshot(ConvOf(p)) = turn[p].before

\* a failed turn that had restored a history from the store
C6_Witness ==
  \E p \in Procs :
    /\ turn[p].pc = "done" /\ turn[p].modelFailed
    /\ turn[p].restored # <<>>
    /\ memory[ConvOf(p)] = <<>>

\* the record the conversation had in some backend when the turn began
HadRecord(p) ==
  \/ turn[p].before.blob.exists
  \/ \E d \in Dirs : turn[p].before.files[d].exists

ResetDone(p) == turn[p].pc = "done" /\ turn[p].kind = "reset"

C8_ClassifierFailsClosed ==
  \A p \in Procs :
    turn[p].instructor # "" =>
      /\ turn[p].pc = "reply"
      /\ turn[p].classification.class_label \in CLASSIFICATION_LABELS
      /\ turn[p].instructor \notin CLASSIFICATION_LABELS =>
           turn[p].classification.class_label = NEEDS_DISCLAIMER

\* a classification whose call failed
C8_Witness ==
  \E p \in Procs :
    /\ turn[p].pc = "reply"
    /\ turn[p].instructor = "validation failed"
    /\ turn[p].classification.class_label = NEEDS_DISCLAIMER

\* the store was configured for the cloud backend and works on the local
\* file system
FellBack == ~env.USE_LOCAL_STORAGE /\ svc.initialized /\ svc.useLocalStorage

\* the step is the store operation of turn p: its load, save or delete
StoreStep(p, from) == turn[p].pc = from /\ turn'[p].pc # from

\* the local file of the conversation of turn p, after the step
LocalFileAfter(p) == disk'.files[svc'.localStoragePath][ConvOf(p)]

\* no call of the operation failed and there is a directory to work in
OperationWentThrough(p) ==
  /\ ~turn'[p].io.opFails
  /\ ~turn'[p].threw
  /\ svc'.localStoragePath \in disk'.dirs

\* the effect of an operation on the local file system, for a store that
\* has fallen back
ActsOnLocalFiles ==
  \A p \in Procs :
    (FellBack' /\ OperationWentThrough(p)) =>
      /\ StoreStep(p, "persist") =>
           LocalFileAfter(p) = File(JSONstringify(turn[p].conversationHistory))
      /\ StoreStep(p, "restore") =>
           turn'[p].restored = ParseOrEmpty(LocalFileAfter(p))
      /\ StoreStep(p, "reset_delete") => ~LocalFileAfter(p).exists

\* C9: when the store is configured for the cloud backend and its
\* initialization fails, the store is in local mode from then on; every save,
\* load and delete of a store that has fallen back leaves the storage account
\* alone and acts on the local file system; and a store in local mode stays in
\* local mode until the process starts again.
C9_FallbackIsOneWay ==
  /\ [](\A p \in Procs :
          (~env.USE_LOCAL_STORAGE /\ turn[p].io.existsFailures >= 3) => FellBack)
  /\ []((~env.USE_LOCAL_STORAGE /\ ~env.storageConfig /\ svc.initialized) => FellBack)
  /\ [][FellBack' => cloud' = cloud]_vars
  /\ [][ActsOnLocalFiles]_vars
  /\ [][(svc.useLocalStorage /\ svc'.initialized) => svc'.useLocalStorage]_vars

\* a store that has fallen back has saved a turn to a local file while the
\* storage account holds another history of the conversation, saved before the
\* process was started again
C9_Witness ==
  \E p \in Procs :
    /\ FellBack
    /\ turn[p].pc = "done" /\ turn[p].kind = "normal" /\ ~turn[p].modelFailed
    /\ cloud.blobs[ConvOf(p)].exists
    /\ Record(World, ConvOf(p)) = File(JSONstringify(turn[p].conversationHistory))
    /\ Record(World, ConvOf(p)) # cloud.blobs[ConvOf(p)]

\* the request of turn p is the first one built for its conversation since
\* the process started, and a turn of an earlier process saved a history
FirstAfterRestart(p) ==
  /\ turn[p].pc = "model"
  /\ turn[p].first
  /\ lastSaved[ConvOf(p)].history # <<>>

DeletedAtStartup(p) ==
  /\ env.USE_LOCAL_STORAGE
  /\ svc.localStoragePath = DirHistory
  /\ ConvOf(p) = "personal-chat-id"

ReplyStep(p) == turn[p].pc = "reply" /\ turn'[p].pc = "append"

\* the activity sent last by turn p, after the step
LastSent(p) == turn'[p].sent[Len(turn'[p].sent)]

\* C17: the reply of a normal turn is the model's response, with the short
\* disclaimer appended if and only if the classifier's label is
\* NEEDS_DISCLAIMER; it is appended whenever the classifier's call failed.
C17_DisclaimerIffLabelled ==
  [][\A p \in Procs :
       ReplyStep(p) =>
         /\ Len(turn'[p].sent) = Len(turn[p].sent) + 1
         /\ turn[p].classification.class_label = NEEDS_DISCLAIMER =>
              LastSent(p) = Message(<<turn[p].botResponseText, shortDisclaimer>>)
         /\ turn[p].classification.class_label # NEEDS_DISCLAIMER =>
              LastSent(p) = Message(<<turn[p].botResponseText>>)
         /\ turn[p].instructor \notin CLASSIFICATION_LABELS =>
              LastSent(p) = Message(<<turn[p].botResponseText, shortDisclaimer>>)]_vars

\* a reply with the disclaimer, sent after a classification that failed
C17_Witness ==
  \E p \in Procs :
    /\ turn[p].pc = "append"
    /\ turn[p].classification.explanation # "from the model"
    /\ turn[p].sent = <<Typing, Message(<<turn[p].botResponseText, shortDisclaimer>>)>>

\* the history turn p started from: the in-memory history, or what the store
\* returned when that was empty
StartedFrom(p) ==
  IF turn[p].before.memory # <<>> THEN turn[p].before.memory ELSE turn[p].restored

\* the normal turn p has run to its end without a failure of the model or of
\* a storage call of its save
Successful(p) ==
  /\ turn[p].pc = "done" /\ turn[p].kind = "normal"
  /\ ~turn[p].modelFailed
  /\ turn[p].io = IoOk /\ ~turn[p].threw
  /\ Writable

\* the exchange of turn p appended to the history it started from, trimmed
\* with the turn's system tokens and userTokens = 0
Expected(p) ==
  trimConversationToTokenLimit(
    StartedFrom(p) \o <<UserMessage(turn[p].txt), AssistantMessage(turn[p].botResponseText)>>,
    encodeLength(turn[p].systemMessage), 0)

\* C18: after a successful normal turn the history of the conversation is
\* trim(H ++ [userTurn, assistantTurn], systemTokens, 0), in memory and in
\* the durable store.
C18_SameHistoryInMemoryAndStore ==
  \A p \in Procs :
    Successful(p) =>
      /\ memory[ConvOf(p)] = Expected(p)
      /\ ParseOrEmpty(Record(World, ConvOf(p))) = Expected(p)

\* turns alternate user, assistant from a user turn on, users with
\* input_text and assistants with output_text
Alternates(history) ==
  \A i \in 1..Len(history) :
    /\ history[i].role = (IF i % 2 = 1 THEN "user" ELSE "assistant")
    /\ \A k \in 1..Len(history[i].content) :
         history[i].content[k].type =
           (IF i % 2 = 1 THEN "input_text" ELSE "output_text")

\* C19: in every history in memory, in a file or in a blob, and in the
\* history a turn works on, turns alternate user, assistant starting with a
\* user turn; user turns have content type input_text and assistant turns
\* output_text.
C19_TurnsAlternate ==
  /\ \A c \in ConvIds :
       /\ Alternates(memory[c])
       /\ Alternates(ParseOrEmpty(cloud.blobs[c]))
       /\ \A d \in Dirs : Alternates(ParseOrEmpty(disk.files[d][c]))
  /\ \A p \in Procs : Alternates(turn[p].conversationHistory)

\* two exchanges in memory and in the record of the conversation
C19_Witness ==
  \E c \in ConvIds :
    /\ Len(memory[c]) = 4
    /\ ParseOrEmpty(Record(World, c)) = memory[c]

(***************************************************************************)
(* SpecInterleaved: turns of different conversations in flight at once.    *)
(* Each await of onMessage is a point where the turn of another            *)
(* conversation can run.  The users of the two conversations type          *)
(* different texts, so that a turn in a history tells who appended it.     *)
(***************************************************************************)
TextsOf(conversationId) ==
  IF conversationId = "personal-chat-id" THEN {"hi", RestartCommand}
                                         ELSE {"caf<U+00E9>", "/RESTART"}

\* no turn of the conversation is in flight
NotInFlight(conversationId) ==
  \A q \in Procs : turn[q].pc # "idle" => ConvOf(q) # conversationId

\* the slot a new turn takes: the first free one
FirstFree(p) == \A q \in Procs : q < p => turn[q].pc # "idle"

NextInterleaved ==
  \/ \E p \in Procs, conversationId \in ConvIds :
       \E txt \in TextsOf(conversationId) :
         /\ FirstFree(p)
         /\ NotInFlight(conversationId)
         /\ Receive(p, conversationId, txt)
  \/ \E p \in Procs : Step(p)
  \/ \E io \in ConstructorIos : Restart(io)

SpecInterleaved == Init /\ [][NextInterleaved]_vars

\* the step belongs to the turn in slot p
TurnStep(p) ==
  /\ turn[p].pc # "idle"
  /\ turn'[p] # turn[p]
  /\ turn'[p].conversationId = turn[p].conversationId

\* the step leaves the in-memory history and every record of the conversation
\* as they were
Untouched(conversationId) ==
  /\ memory'[conversationId] = memory[conversationId]
  /\ cloud'.blobs[conversationId] = cloud.blobs[conversationId]
  /\ \A d \in Dirs : disk'.files[d][conversationId] = disk.files[d][conversationId]

\* every user turn of the history was typed in the conversation
OnlyTurnsOf(conversationId, history) ==
  \A i \in 1..Len(history) :
    history[i].role = "user" =>
      \A k \in 1..Len(history[i].content) :
        history[i].content[k].text \in TextsOf(conversationId)

\* C20: a step of a turn or reset of one conversation changes neither the
\* in-memory history nor any record of another conversation, and the request
\* built for a conversation holds only turns appended in that conversation.
C20_HistoriesAreNotShared ==
  /\ [][\A p \in Procs :
          TurnStep(p) =>
            \A other \in ConvIds \ {ConvOf(p)} : Untouched(other)]_vars
  /\ [](\A p \in Procs :
          turn[p].pc = "model" => OnlyTurnsOf(ConvOf(p), turn[p].messages))
  /\ [](\A c \in ConvIds :
          /\ OnlyTurnsOf(c, memory[c])
          /\ OnlyTurnsOf(c, ParseOrEmpty(cloud.blobs[c]))
          /\ \A d \in Dirs : OnlyTurnsOf(c, ParseOrEmpty(disk.files[d][c])))

\* the request of one conversation is out while the turn of the other, still
\* in flight, has appended its exchange and is about to save it
C20_Witness ==
  \E p, q \in Procs :
    /\ ConvOf(p) # ConvOf(q)
    /\ turn[p].pc = "model"
    /\ turn[q].pc = "persist"
    /\ memory[ConvOf(q)] # <<>>
    /\ memory[ConvOf(p)] = <<>>

(***************************************************************************)
(* SpecRace: turns of one conversation in flight at once.  Each turn works *)
(* on its own copy of the history (the turn's state cache); the in-memory  *)
(* history is written by saveChanges and the record by the save that       *)
(* follows, two awaits apart.                                              *)
(***************************************************************************)
RaceTexts == {"hi", "long question", RestartCommand}

\* the conversation whose turns race
RaceConv == "19:meeting"

NextRace ==
  \/ \E p \in Procs, txt \in RaceTexts :
       FirstFree(p) /\ Receive(p, RaceConv, txt)
  \/ \E p \in Procs : Step(p)

SpecRace == Init /\ [][NextRace]_vars

\* two normal turns of one conversation have both run to their end, no
\* storage call of their saves failing
BothCompleted(p, q) ==
  /\ p # q
  /\ ConvOf(p) = ConvOf(q)
  /\ Successful(p)
  /\ Successful(q)
  /\ lastSaved[ConvOf(p)].io = IoOk

\* C21: when two turns of one conversation have raced, the history of the
\* turn that completed last (the last one handed to the store) is both the
\* in-memory history and the durable history.
C21_LastCompletedTurnWins ==
  \A p, q \in Procs :
    BothCompleted(p, q) =>
      /\ memory[ConvOf(p)] = lastSaved[ConvOf(p)].history
      /\ ParseOrEmpty(Record(World, ConvOf(p))) = lastSaved[ConvOf(p)].history

\* the messages that tell the user of a failure
FailureMessages ==
  {Message(<<Apology>>), Message(<<UnhandledError>>), Message(<<FixSourceCode>>)}

\* C22: a turn sends a failure message only when its model call failed; a
\* failure of the classifier or of a storage operation causes none.
C22_FailureMessageOnlyForModelFailure ==
  \A p \in Procs :
    \A i \in 1..Len(turn[p].sent) :
      turn[p].sent[i] \in FailureMessages => turn[p].modelFailed

\* C23: no message sent to the chat carries an exception's message.
C23_NoErrorDetailInChat ==
  \A p \in Procs :
    \A i \in 1..Len(turn[p].sent) :
      \A k \in 1..Len(turn[p].sent[i].text) :
        turn[p].sent[i].text[k] # UnhandledError

(***************************************************************************)
(* The reset command.                                                      *)
(***************************************************************************)
\* the positions of the handler inside the reset branch, and those past it
ResetPcs == {"reset", "reset_delete", "reset_reply", "turn_error"}
NormalPcs == {"start", "restore", "typing", "model", "classify", "reply",
              "append", "persist"}

\* no file and no blob of the conversation is written by the step
NothingSaved(conversationId) ==
  /\ \A d \in Dirs :
       disk'.files[d][conversationId] \in {disk.files[d][conversationId], NoFile}
  /\ cloud'.blobs[conversationId] \in {cloud.blobs[conversationId], NoFile}

\* C24: a step of a reset turn stays inside the reset branch: no request is
\* built for the model, no answer and no classification are obtained, nothing
\* is appended to the conversation's history in memory, and no file or blob
\* of the conversation is written (a record can only disappear).
C24_ResetTurnSkipsOtherStates ==
  [][\A p \in Procs :
       (turn[p].kind = "reset" /\ turn'[p].kind = "reset") =>
         /\ turn'[p].pc \in ResetPcs \cup {"done"}
         /\ turn'[p].messages = <<>>
         /\ turn'[p].botResponseText = ""
         /\ turn'[p].instructor = ""
         /\ turn'[p].classification = NoClassification
         /\ requested' = requested
         /\ memory'[turn[p].conversationId] = <<>>
         /\ NothingSaved(turn[p].conversationId)]_vars

\* a reset turn of a conversation that had a history has sent its
\* confirmation
C24_Witness ==
  \E p \in Procs :
    /\ turn[p].kind = "reset"
    /\ turn[p].pc = "done"
    /\ turn[p].before.memory # <<>>
    /\ Message(<<ResetConfirmation>>) \in {turn[p].sent[i] : i \in 1..Len(turn[p].sent)}

\* the spellings of the command among the texts
RestartSpellings == {"/restart", "/RESTART"}

Sent(p) == {turn[p].sent[i] : i \in 1..Len(turn[p].sent)}

\* C25: a turn is in the reset branch only if its text (mention removed,
\* trimmed) is /restart in some casing, and in the normal path only if it is
\* not; a text that merely contains /restart is handled as a normal turn.
C25_ResetIffTextIsRestart ==
  \A p \in Procs :
    /\ turn[p].pc # "idle" => turn[p].txt \in UserTexts
    /\ (turn[p].pc \in ResetPcs \/ Message(<<ResetConfirmation>>) \in Sent(p))
         => turn[p].txt \in RestartSpellings
    /\ (turn[p].pc \in NormalPcs \/ Typing \in Sent(p))
         => turn[p].txt \notin RestartSpellings
    /\ (turn[p].pc = "done" /\ turn[p].txt \in RestartSpellings)
         => /\ Typing \notin Sent(p)
            /\ turn[p].messages = <<>>
    /\ (turn[p].pc = "done" /\ turn[p].txt \in UserTexts \ RestartSpellings)
         => /\ Typing \in Sent(p)
            /\ Message(<<ResetConfirmation>>) \notin Sent(p)

\* a text containing the command went through a normal turn and is in the
\* history of one conversation, and the command in capitals has been
\* answered with the confirmation in the other
C25_Witness ==
  \E p \in Procs, c \in ConvIds :
    /\ turn[p].txt = "/RESTART"
    /\ turn[p].conversationId # c
    /\ Message(<<ResetConfirmation>>) \in Sent(p)
    /\ Len(memory[c]) = 2
    /\ memory[c][1] = UserMessage("see /restart")

(***************************************************************************)
(* The request.                                                            *)
(***************************************************************************)
\* C26: the request of a normal turn is the system message, then the prior
\* history message by message in its order, then the new user turn.
C26_RequestIsPreambleHistoryUserTurn ==
  \A p \in Procs :
    turn[p].pc = "model" =>
      LET prior == StartedFrom(p)
          messages == turn[p].messages
      IN /\ Len(messages) = Len(prior) + 2
         /\ messages[1] = SystemMessageOf(turn[p].systemMessage)
         /\ turn[p].systemMessage \in SystemMessages
         /\ \A i \in 1..Len(prior) : messages[i + 1] = prior[i]
         /\ messages[Len(messages)] = UserMessage(turn[p].txt)

\* a request is out whose history was restored from the store
C26_Witness ==
  \E p \in Procs :
    /\ turn[p].pc = "model"
    /\ turn[p].before.memory = <<>>
    /\ Len(turn[p].restored) = 2
    /\ Len(turn[p].messages) = 4

(***************************************************************************)
(* SpecInitialize: store operations issued concurrently.  initialize() is  *)
(* taken apart at its awaits: up to containerClient.exists(), from its     *)
(* result to containerClient.create(), and from the result of that on.     *)
(* A slot of turn holds a caller: kind is the operation, pc its position.  *)
(***************************************************************************)
CallerOps == {"save", "load", "delete"}
CallerHistory == <<UserMessage("hi"), AssistantMessage("ok")>>

\* what the environment does to one caller's initialize()
InitializeIos ==
  { IoOk,
    [IoOk EXCEPT !.existsFailures = 3],
    [IoOk EXCEPT !.createFails = TRUE],
    [IoOk EXCEPT !.existsFailures = 3, !.mkdirFailures = 3] }

\* what the environment does to the operation's own call
OperationIos == {IoOk, [IoOk EXCEPT !.opFails = TRUE]}

\* a store operation is called: await this.initialize()
CallStore(p, op, conversationId) ==
  /\ turn[p].pc = "idle"
  /\ ops < MaxOps
  /\ ops' = ops + 1
  /\ turn' = [turn EXCEPT ![p] =
       [IdleTurn EXCEPT !.pc = "initialize", !.kind = op,
                        !.conversationId = conversationId]]
  /\ UNCHANGED <<storeVars, memory, turns, requested, lastSaved, trim, lastOp, prevOp, twin>>

\* the caller leaves initialize(): it goes on to its operation, or the
\* operation rejects with what initialize() threw
Leave(p, r) ==
  /\ SetWorld(r.w)
  /\ turn' = [turn EXCEPT ![p] =
       IF r.threw THEN IdleTurn ELSE [turn[p] EXCEPT !.pc = "operation"]]

\* initialize() up to its first await
InitializeEnter(p, io) ==
  /\ turn[p].pc = "initialize"
  /\ IF svc.initialized
       THEN Leave(p, [w |-> World, threw |-> FALSE])
     ELSE IF svc.useLocalStorage
       THEN Leave(p, [w |-> [World EXCEPT !.svc.initialized = TRUE], threw |-> FALSE])
     ELSE IF ~env.storageConfig
       THEN Leave(p, initializeCatch(World, env, io))
     ELSE /\ turn' = [turn EXCEPT ![p].pc = "exists"]
          /\ UNCHANGED <<svc, disk, cloud>>
  /\ UNCHANGED <<env, memory, turns, requested, lastSaved, trim, driverVars>>

\* the retry loop around containerClient.exists() has finished
InitializeExists(p, io) ==
  /\ turn[p].pc = "exists"
  /\ IF ContainerCheck(io).threw
       THEN Leave(p, initializeCatch(World, env, io))
     ELSE IF cloud.container
       THEN Leave(p, [w |-> [World EXCEPT !.svc.initialized = TRUE], threw |-> FALSE])
     ELSE /\ turn' = [turn EXCEPT ![p].pc = "create"]
          /\ UNCHANGED <<svc, disk, cloud>>
  /\ UNCHANGED <<env, memory, turns, requested, lastSaved, trim, driverVars>>

\* containerClient.create() has finished; it fails if the container has
\* been created in the meantime
InitializeCreate(p, io) ==
  /\ turn[p].pc = "create"
  /\ IF cloud.container \/ io.createFails
       THEN Leave(p, initializeCatch(World, env, io))
       ELSE Leave(p, [w |-> [World EXCEPT !.svc.initialized = TRUE,
                                          !.cloud.container = TRUE],
                      threw |-> FALSE])
  /\ UNCHANGED <<env, memory, turns, requested, lastSaved, trim, driverVars>>

\* the rest of the operation, after initialize() has returned
Operation(p, io) ==
  /\ turn[p].pc = "operation"
  /\ LET conversationId == turn[p].conversationId
         w == [World EXCEPT !.svc.initialized = TRUE]
         r == CASE turn[p].kind = "save" ->
                     saveConversationHistory(w, env, conversationId, CallerHistory, io)
                [] turn[p].kind = "load" ->
                     loadConversationHistory(w, env, conversationId, io)
                [] OTHER -> deleteConversationHistory(w, env, conversationId, io)
     IN /\ SetWorld([r.w EXCEPT !.svc.initialized = svc.initialized])
        /\ prevOp' = lastOp
        /\ lastOp' = [NoOp EXCEPT !.op = turn[p].kind,
                                  !.conversationId = conversationId,
                                  !.history = IF turn[p].kind = "save"
                                                THEN CallerHistory ELSE <<>>,
                                  !.io = io,
                                  !.returned = IF turn[p].kind = "load"
                                                 THEN r.returned ELSE <<>>,
                                  !.backend = Backend(r.w)]
  /\ turn' = [turn EXCEPT ![p] = IdleTurn]
  /\ UNCHANGED <<env, memory, turns, requested, lastSaved, trim, ops, twin>>

NextInitialize ==
  \/ \E p \in Procs, op \in CallerOps, conversationId \in ConvIds :
       FirstFree(p) /\ CallStore(p, op, conversationId)
  \/ \E p \in Procs, io \in InitializeIos : InitializeEnter(p, io)
  \/ \E p \in Procs, io \in InitializeIos : InitializeExists(p, io)
  \/ \E p \in Procs, io \in InitializeIos : InitializeCreate(p, io)
  \/ \E p \in Procs, io \in OperationIos : Operation(p, io)

SpecInitialize == Init /\ [][NextInitialize]_vars

\* C27: once the store is initialized, its backend stays as it is: no later
\* or concurrent call of initialize(), made by a save, load or delete,
\* changes the fields of the service.
C27_BackendEstablishedOnce ==
  [][svc.initialized => svc' = svc]_vars

(***************************************************************************)
(* SpecBackends: the same operations, none of them failing, applied to a   *)
(* store on the blob container (env, svc, disk, cloud) and to a store on   *)
(* local files (twin).                                                     *)
(***************************************************************************)
InitBackends ==
  /\ env = CloudEnv
  /\ LET r == constructor(EmptyDisk, EmptyCloud, env, IoOk)
     IN /\ svc = r.w.svc
        /\ disk = r.w.disk
        /\ cloud = r.w.cloud
  /\ QuietBot
  /\ QuietDriver
  /\ trim = IdleTrim

\* an operation is given to both stores
Both(op, conversationId, history, r, t) ==
  /\ ops < MaxOps
  /\ ops' = ops + 1
  /\ ~r.threw /\ ~t.threw
  /\ SetWorld(r.w)
  /\ prevOp' = lastOp
  /\ lastOp' = [NoOp EXCEPT !.op = op, !.conversationId = conversationId,
                            !.history = history,
                            !.returned = IF op = "load" THEN r.returned ELSE <<>>,
                            !.backend = Backend(r.w)]
  /\ twin' = [w |-> t.w, returned |-> IF op = "load" THEN t.returned ELSE <<>>]
  /\ UNCHANGED <<env, botVars, trim>>

BothSave(conversationId, history) ==
  Both("save", conversationId, history,
       saveConversationHistory(World, env, conversationId, history, IoOk),
       saveConversationHistory(twin.w, LocalEnv, conversationId, history, IoOk))

BothLoad(conversationId) ==
  Both("load", conversationId, <<>>,
       loadConversationHistory(World, env, conversationId, IoOk),
       loadConversationHistory(twin.w, LocalEnv, conversationId, IoOk))

BothDelete(conversationId) ==
  Both("delete", conversationId, <<>>,
       deleteConversationHistory(World, env, conversationId, IoOk),
       deleteConversationHistory(twin.w, LocalEnv, conversationId, IoOk))

NextBackends ==
  \/ \E conversationId \in ConvIds, history \in StoreHistories :
       BothSave(conversationId, history)
  \/ \E conversationId \in ConvIds : BothLoad(conversationId)
  \/ \E conversationId \in ConvIds : BothDelete(conversationId)

SpecBackends == InitBackends /\ [][NextBackends]_vars

\* C28: after the same saves, loads and deletes, none of which failed, a load
\* returns the same history from the store on the blob container and from
\* the store on local files, and the two stores are on different backends.
C28_BackendsReturnTheSame ==
  lastOp.op = "load" =>
    /\ Backend(World) = "cloud"
    /\ Backend(twin.w) = "local"
    /\ lastOp.returned = twin.returned

(***************************************************************************)
(* The fallback directories.                                               *)
(***************************************************************************)
\* the first operation of the process fell back to local files and the
\* mkdirSync of the directory the constructor chose failed
LocalInitFailed ==
  /\ ops = 1
  /\ ~env.USE_LOCAL_STORAGE
  /\ svc.useLocalStorage
  /\ lastOp.io.mkdirFailures >= 1

FallbackDirs == {DirWwwroot, DirTmp}

\* C29 as stated: when the directory cannot be created, a fallback location
\* is attempted wherever the process runs.
C29_FallbackInEveryEnvironment ==
  LocalInitFailed => svc.localStoragePath \in FallbackDirs

\* C29, amended: when the directory cannot be created and the process runs
\* on Azure, C:/home/site/wwwroot/data is tried next and the temporary
\* directory last, and a failure there is thrown; when the process does not
\* run on Azure nothing else is tried: the path stays the one the
\* constructor chose, the directory does not exist, and nothing is thrown.
C29_FallbackOnlyOnAzure ==
  /\ svc.localStoragePath \in FallbackDirs => env.RUNNING_ON_AZURE
  /\ LocalInitFailed =>
       IF env.RUNNING_ON_AZURE
         THEN /\ lastOp.io.mkdirFailures = 1 =>
                   /\ svc.localStoragePath = DirWwwroot
                   /\ DirWwwroot \in disk.dirs
                   /\ ~lastOp.threw
              /\ lastOp.io.mkdirFailures = 2 =>
                   /\ svc.localStoragePath = DirTmp
                   /\ DirTmp \in disk.dirs
                   /\ ~lastOp.threw
              /\ lastOp.io.mkdirFailures = 3 =>
                   /\ svc.localStoragePath = DirTmp
                   /\ DirTmp \notin disk.dirs
                   /\ lastOp.threw
         ELSE /\ svc.localStoragePath = DirHistory
              /\ DirHistory \notin disk.dirs
              /\ ~lastOp.threw

\* on Azure the first two directories could not be created and the store is
\* on the temporary directory
C29_Witness ==
  /\ LocalInitFailed
  /\ env.RUNNING_ON_AZURE
  /\ lastOp.io.mkdirFailures = 2
  /\ svc.localStoragePath = DirTmp

(***************************************************************************)
(* Corrupted records.                                                      *)
(***************************************************************************)
\* the record has a content that JSON.parse rejects
Corrupted(file) ==
  file.exists /\ file.content # <<>> /\ ~JSONparse(file.content).ok

\* the record of the turn's conversation on the active backend, as it was
\* when the turn began
BeforeRecord(p) ==
  IF svc.useLocalStorage THEN turn[p].before.files[svc.localStoragePath]
                         ELSE turn[p].before.blob

\* the normal turn p has loaded from the store and the record was corrupted
FoundCorrupted(p) ==
  /\ turn[p].kind = "normal"
  /\ turn[p].loaded
  /\ Corrupted(BeforeRecord(p))

\* what a save of the history writes: the whole text to a file, the
\* announced number of bytes to a blob
Written(history) ==
  IF svc.useLocalStorage
    THEN File(JSONstringify(history))
    ELSE Upload(JSONstringify(history), StringLength(JSONstringify(history)))

\* C30 as stated: the record of a conversation is deleted when the load of
\* a turn finds it corrupted.
C30_CorruptedRecordIsDeleted ==
  \A p \in Procs :
    (FoundCorrupted(p) /\ turn[p].pc = "typing") =>
      ~Record(World, ConvOf(p)).exists

\* C30, amended: a load that finds the record corrupted returns the empty
\* history and leaves the record as it is; the turn goes on with an empty
\* history, and the record is still there, unchanged, until the turn's save
\* writes the new history over it; if the model call or the write fails, the
\* corrupted record outlives the turn.
C30_CorruptedRecordIsKeptUntilOverwritten ==
  \A p \in Procs :
    FoundCorrupted(p) =>
      /\ turn[p].restored = <<>>
      /\ turn[p].pc \in NormalPcs => Record(World, ConvOf(p)) = BeforeRecord(p)
      /\ turn[p].pc = "model" =>
           turn[p].messages = <<SystemMessageOf(turn[p].systemMessage),
                                UserMessage(turn[p].txt)>>
      /\ turn[p].pc = "done" =>
           Record(World, ConvOf(p)) =
             IF ~turn[p].modelFailed /\ ~turn[p].io.opFails /\ Writable
               THEN Written(turn[p].conversationHistory)
               ELSE BeforeRecord(p)

\* a turn found the record corrupted, the model call failed, and the
\* corrupted record is still in the store when the turn ends
C30_Witness ==
  \E p \in Procs :
    /\ FoundCorrupted(p)
    /\ turn[p].pc = "done"
    /\ turn[p].modelFailed
    /\ Corrupted(Record(World, ConvOf(p)))

(***************************************************************************)
(* The order of the steps of a normal turn.                                *)
(***************************************************************************)
\* the steps of a normal turn, each with the step that follows it
TurnOrder ==
  { <<"start", "restore">>, <<"start", "typing">>, <<"restore", "typing">>,
    <<"typing", "model">>, <<"model", "classify">>, <<"model", "done">>,
    <<"classify", "reply">>, <<"reply", "append">>, <<"append", "persist">>,
    <<"persist", "done">> }

\* the reply of turn p is the last activity it sent
ReplySent(p) ==
  /\ turn[p].sent # <<>>
  /\ turn[p].sent[Len(turn[p].sent)].type = "message"
  /\ turn[p].sent[Len(turn[p].sent)].text[1] = turn[p].botResponseText

\* where a normal turn is, and what has been done by then
StepsInOrder(p) ==
  /\ turn[p].pc \in {"model", "classify", "reply", "append", "persist"} =>
       /\ turn[p].messages # <<>>
       /\ turn[p].sent = <<Typing>> \/ turn[p].pc \in {"append", "persist"}
  /\ turn[p].pc \in {"classify", "reply", "append", "persist"} =>
       turn[p].botResponseText \in BotResponseTexts
  /\ turn[p].pc = "reply" => turn[p].classification.class_label \in CLASSIFICATION_LABELS
  /\ turn[p].pc = "append" =>
       /\ ReplySent(p)
       /\ Snapshot(ConvOf(p)) = turn[p].before
  /\ turn[p].pc = "persist" =>
       /\ ReplySent(p)
       /\ memory[ConvOf(p)] = turn[p].conversationHistory
       /\ Snapshot(ConvOf(p)).files = turn[p].before.files
       /\ Snapshot(ConvOf(p)).blob = turn[p].before.blob
  /\ (turn[p].pc = "done" /\ ~turn[p].modelFailed) =>
       /\ ReplySent(p)
       /\ memory[ConvOf(p)] = turn[p].conversationHistory
       /\ lastSaved[ConvOf(p)].history = turn[p].conversationHistory

\* C31: a normal turn takes its steps in the order load, request, model,
\* classification, reply, append and trim, save of the conversation state,
\* save to the store; when the exchange is appended the reply has been sent
\* and neither the conversation state nor the store has been written, and
\* when the save to the store starts the conversation state holds the new
\* history and the store is as the turn found it.
C31_StepsInOrder ==
  /\ [](\A p \in Procs : turn[p].kind = "normal" => StepsInOrder(p))
  /\ [][\A p \in Procs :
          (turn[p].kind = "normal" /\ turn'[p].kind = "normal"
           /\ turn'[p].pc # turn[p].pc)
            => <<turn[p].pc, turn'[p].pc>> \in TurnOrder]_vars

\* a normal turn has gone through all its steps
C31_Witness ==
  \E p \in Procs :
    /\ Successful(p)
    /\ turn[p].loaded
    /\ Len(turn[p].sent) = 2
    /\ Record(World, ConvOf(p)).exists

(***************************************************************************)
(* The trimmer removes as little as it can, and stops.                     *)
(***************************************************************************)
\* the input of the call without its oldest k exchanges
WithoutOldest(k) == SubSeq(trim.history, 2 * k + 1, Len(trim.history))

\* the total of the call for a history
TrimTotal(history) ==
  trim.systemTokens + trim.userTokens + countTokensInHistory(history)

\* C32: if the call removed k exchanges, the input without its oldest j
\* exchanges exceeded MAX_TOKENS and had two turns or more for every j < k,
\* and the input without its oldest k exchanges, which is what the call
\* returns, fits or has fewer than two turns.
C32_FewestExchangesRemoved ==
  trim.done =>
    /\ trim.returned = WithoutOldest(trim.iterations)
    /\ \A j \in 0..(trim.iterations - 1) :
         /\ TrimTotal(WithoutOldest(j)) > MAX_TOKENS
         /\ Len(WithoutOldest(j)) >= 2
    /\ \/ TrimTotal(trim.returned) <= MAX_TOKENS
       \/ Len(trim.returned) < 2

\* a call that removed one exchange of two and returned the other, which fits
C32_Witness ==
  /\ trim.done
  /\ Len(trim.history) = 4
  /\ trim.iterations = 1
  /\ Len(trim.returned) = 2
  /\ TrimTotal(trim.returned) <= MAX_TOKENS

\* C38: the loop of a call on a history of n turns makes at most n \div 2
\* passes, and every pass takes two turns off.
C38_AtMostHalfLengthPasses ==
  trim.done =>
    /\ trim.iterations <= Len(trim.history) \div 2
    /\ Len(trim.returned) = Len(trim.history) - 2 * trim.iterations

\* a call on a history of an odd number of turns that no removal makes fit:
\* the loop has made every pass it can and one turn is left
C38_Witness ==
  /\ trim.done
  /\ Len(trim.history) = 3
  /\ trim.iterations = 1
  /\ Len(trim.returned) = 1
  /\ TrimTotal(trim.returned) > MAX_TOKENS

(***************************************************************************)
(* SpecResetRace: the turns of SpecRace, starting either from a fresh      *)
(* process or from a process that has completed one turn of the            *)
(* conversation, whose exchange is in memory and in the store.             *)
(***************************************************************************)
EarlierExchange == <<UserMessage("see /restart"), AssistantMessage("ok")>>

\* the state after a first turn in which no call failed
AfterOneTurn ==
  /\ env \in Envs
  /\ LET started == StartProcess(EmptyDisk, EmptyCloud, env, IoOk)
         loaded == loadConversationHistory(started.w, env, RaceConv, IoOk)
         saved == saveConversationHistory(loaded.w, env, RaceConv, EarlierExchange, IoOk)
     IN /\ svc = saved.w.svc
        /\ disk = saved.w.disk
        /\ cloud = saved.w.cloud
  /\ memory = [c \in ConvIds |-> IF c = RaceConv THEN EarlierExchange ELSE <<>>]
  /\ turn = [p \in Procs |-> IdleTurn]
  /\ turns = 0
  /\ requested = {RaceConv}
  /\ lastSaved = [c \in ConvIds |->
                    IF c = RaceConv THEN [history |-> EarlierExchange, io |-> IoOk]
                                    ELSE NoSave]
  /\ QuietDriver
  /\ trim = IdleTrim

InitResetRace == Init \/ AfterOneTurn

SpecResetRace == InitResetRace /\ [][NextRace]_vars

\* the exchanges of a history
Exchanges(history) ==
  {<<history[2 * i - 1], history[2 * i]>> : i \in 1..(Len(history) \div 2)}

\* a normal turn that began with a history in memory and a reset of the same
\* conversation, no call of whose delete failed, have both run to their end
TurnAndResetCompleted(p, q) ==
  /\ turn[p].pc = "done" /\ turn[p].kind = "normal"
  /\ turn[q].pc = "done" /\ turn[q].kind = "reset"
  /\ ~turn[q].threw /\ turn[q].io = IoOk
  /\ ConvOf(p) = ConvOf(q)
  /\ turn[p].before.memory # <<>>
  /\ turn[q].before.memory = turn[p].before.memory

\* C33: when a normal turn and a reset of the same conversation that were
\* in flight together have both completed, no exchange that was in the
\* history before the reset is in the conversation's history in memory or in
\* its record in the store.
C33_ResetWinsOverTurnInFlight ==
  \A p, q \in Procs :
    TurnAndResetCompleted(p, q) =>
      /\ Exchanges(memory[ConvOf(p)]) \cap Exchanges(turn[p].before.memory) = {}
      /\ Exchanges(ParseOrEmpty(Record(World, ConvOf(p))))
           \cap Exchanges(turn[p].before.memory) = {}

(***************************************************************************)
(* SpecAfterTurn: the bot of Spec, turns handled one after another, in a   *)
(* process that has completed one turn of a conversation.                  *)
(***************************************************************************)
SpecAfterTurn == AfterOneTurn /\ [][Next]_vars

\* turn p is the first normal turn of the conversation since its reset: the
\* reset has run to its end, no turn has saved a history since, and the
\* process has not been restarted
FirstSinceReset(p) ==
  /\ turn[p].pc = "model"
  /\ ConvOf(p) = RaceConv
  /\ lastSaved[RaceConv] = NoSave
  /\ ~turn[p].first

\* C34: the request of the first normal turn after a reset of the
\* conversation consists of the system message and the new user turn: it
\* contains no turn from before the reset, whether or not the delete of the
\* reset went through.
C34_RequestAfterResetHasNoEarlierTurn ==
  \A p \in Procs :
    FirstSinceReset(p) =>
      turn[p].messages = <<SystemMessageOf(turn[p].systemMessage),
                           UserMessage(turn[p].txt)>>

(***************************************************************************)
(* SpecReachable: the concurrent callers of SpecInitialize with a storage  *)
(* account that answers every call of initialize().                        *)
(***************************************************************************)
NextReachable ==
  \/ \E p \in Procs, op \in CallerOps, conversationId \in ConvIds :
       FirstFree(p) /\ CallStore(p, op, conversationId)
  \/ \E p \in Procs : InitializeEnter(p, IoOk)
  \/ \E p \in Procs : InitializeExists(p, IoOk)
  \/ \E p \in Procs : InitializeCreate(p, IoOk)
  \/ \E p \in Procs, io \in OperationIos : Operation(p, io)

SpecReachable == Init /\ [][NextReachable]_vars

\* C35: with a storage account configured and answering, the store is in
\* cloud mode once it is initialized, also when several operations run
\* initialize() at the same time.
C35_CloudModeWhenCloudReachable ==
  (svc.initialized /\ env.storageConfig /\ ~env.USE_LOCAL_STORAGE) =>
     ~svc.useLocalStorage

(***************************************************************************)
(* Memory and store between turns.                                         *)
(***************************************************************************)
\* C36: with turns handled one after another and no failing storage call,
\* whenever no turn is in flight and the history of a conversation in memory
\* is not empty it equals the conversation's record in the store, and after a
\* reset the history in memory is empty and there is no record.
C36_MemoryEqualsStoreBetweenTurns ==
  /\ \A c \in ConvIds :
       (/\ NoTurnInFlight
        /\ memory[c] # <<>>
        /\ lastSaved[c].io = IoOk
        /\ Writable)
         => ParseOrEmpty(Record(World, c)) = memory[c]
  /\ \A p \in Procs :
       (ResetDone(p) /\ ~turn[p].threw /\ turn[p].io = IoOk) =>
          /\ memory[ConvOf(p)] = <<>>
          /\ ~Record(World, ConvOf(p)).exists

(***************************************************************************)
(* The retries of the container check.                                     *)
(***************************************************************************)
\* the first operation of a process configured for the storage account has
\* run initialize()
FirstCloudInit ==
  /\ ops = 1
  /\ ~env.USE_LOCAL_STORAGE
  /\ env.storageConfig

\* C37: the first initialize() of a store configured for the storage account
\* calls containerClient.exists() at most three times; the first attempt
\* that succeeds is the last, and the store is then in cloud mode (unless
\* the creation of the container fails); the store falls back to local mode
\* after three failed attempts and not after fewer; either way the store is
\* initialized.
C37_AtMostThreeAttempts ==
  FirstCloudInit =>
    LET failures == lastOp.io.existsFailures
    IN /\ lastOp.attempts \in 1..3
       /\ lastOp.attempts = IF failures < 3 THEN failures + 1 ELSE 3
       /\ svc.initialized
       /\ (failures < 3 /\ ~lastOp.io.createFails) =>
            /\ ~svc.useLocalStorage
            /\ cloud.container
       /\ failures >= 3 => svc.useLocalStorage
       /\ svc.useLocalStorage => (failures >= 3 \/ lastOp.io.createFails)

\* exists() failed twice and succeeded at the third attempt: the store is
\* in cloud mode
C37_Witness ==
  /\ FirstCloudInit
  /\ lastOp.io.existsFailures = 2
  /\ lastOp.attempts = 3
  /\ ~svc.useLocalStorage
  /\ svc.initialized

(***************************************************************************)
(* The short disclaimer and the history.                                   *)
(***************************************************************************)
\* text.endsWith(suffix)
endsWith(text, suffix) ==
  /\ Len(text) >= Len(suffix)
  /\ SubSeq(text, Len(text) - Len(suffix) + 1, Len(text)) = suffix

\* the activity the turn sent last
ReplyOf(p) == turn[p].sent[Len(turn[p].sent)]

\* every assistant message of the sequence is one of the model's answers
\* and does not end with the short disclaimer
AssistantTurnsAsAnswered(messages) ==
  \A i \in 1..Len(messages) :
    messages[i].role = "assistant" =>
      /\ messages[i].content[1].text \in ResponseTexts
      /\ ~endsWith(messages[i].content[1].text, shortDisclaimer)

\* C39: the assistant turn pushed to the history is botResponseText alone,
\* whether the reply carried the short disclaimer or not, and no assistant
\* message of a history in memory, of a restored history, of a turn's
\* working history or of a request to the model ends with the short
\* disclaimer.
C39_HistoryWithoutShortDisclaimer ==
  /\ \A c \in ConvIds : AssistantTurnsAsAnswered(memory[c])
  /\ \A p \in Procs :
       /\ AssistantTurnsAsAnswered(turn[p].restored)
       /\ AssistantTurnsAsAnswered(turn[p].conversationHistory)
       /\ AssistantTurnsAsAnswered(turn[p].messages)
       /\ (turn[p].kind = "normal" /\ turn[p].pc = "persist") =>
            LET history == turn[p].conversationHistory
            IN /\ Len(history) >= 2
               /\ history[Len(history)] = AssistantMessage(turn[p].botResponseText)
               /\ ReplyOf(p).text[1] = turn[p].botResponseText

\* a reply went out with the short disclaimer, the assistant turn stored
\* for it is the answer alone, and the request of this turn carried the
\* assistant turn of an earlier one
C39_Witness ==
  \E p \in Procs :
    /\ turn[p].kind = "normal"
    /\ turn[p].pc = "persist"
    /\ ReplyOf(p) = Message(<<turn[p].botResponseText, shortDisclaimer>>)
    /\ turn[p].conversationHistory[Len(turn[p].conversationHistory)]
         = AssistantMessage(turn[p].botResponseText)
    /\ \E i \in 1..Len(turn[p].messages) : turn[p].messages[i].role = "assistant"
====
